---------------------------- MODULE Spec2Model ----------------------------
(***************************************************************************)
(* A model of the fla-lab automaton front end: the four validators         *)
(* (dfa/nfa/pda/tm Info::new) over the parser's PartialMachineInfo and the *)
(* four machines' run loops.                                               *)
(*                                                                         *)
(* Text is modelled by what the code does with it.  A character is a name  *)
(* together with its UTF-8 width; an identifier's text (a state name or a  *)
(* symbol) is the sequence of its characters, so that Rust's str::len()    *)
(* (a byte count) and chars().next() are computed, not assumed.            *)
(***************************************************************************)
EXTENDS Integers, Sequences, FiniteSets, TLC

VARIABLES
    src,        \* the source text of the description file
    lexed,      \* what Parser::lex returned for src, <<>> while it has not run
    parsed,     \* what Parser::parse returned for src and the tokens, <<>> while it has not run
    kind,       \* the machine kind selected by the caller: "dfa" "nfa" "pda" "tm"
    pc,         \* position in the pipeline / in the run loop
    machine,    \* the PartialMachineInfo handed to the validator
    outcome,    \* the validator's return value (Ok(Info) or Err), <<>> before it ran
    input,      \* the input string of run, as a sequence of characters
    position,   \* index of the next input character (0-based, as in the code)
    current,    \* current_state (dfa, pda, tm) or current_states (nfa)
    stack,      \* pda: the VecDeque, back of the deque is the end of the sequence
    tape,       \* tm: Tape.tape
    head,       \* tm: Tape.position
    made_transition, \* pda: the local of that name in run
    result,     \* the boolean run returned, <<>> while it has not returned
    last        \* bookkeeping of the last step taken (what fired, from which configuration)

vars == <<src, lexed, parsed, kind, pc, machine, outcome, input, position, current, stack, tape, head, made_transition, result, last>>

\* the variables of the machines' run
runVars == <<input, position, current, stack, tape, head, made_transition, result, last>>

-----------------------------------------------------------------------------
(* Option<T>: None is the empty sequence, Some(x) the one-element sequence *)

None == <<>>

Some(x) == <<x>>

is_some(o) == o # <<>>

is_none(o) == o = <<>>

unwrap(o) == o[1]

-----------------------------------------------------------------------------
(* Characters and text *)

\* "eacute" stands for U+00E9 and "epsilon" for U+03B5: both take two bytes in UTF-8.
AsciiChars == {"a", "b", "0", "1", "B", "Z"}

WideChars == {"eacute", "epsilon"}

Chars == AsciiChars \cup WideChars

\* char::len_utf8 for the characters of the model
len_utf8(c) == IF c \in WideChars THEN 2 ELSE 1

\* str::len(): the length of the text in bytes
str_len(s) == Len(s) + Cardinality({k \in DOMAIN s : len_utf8(s[k]) = 2})

\* the literal "ε" the validators and machines compare against
EPSILON == <<"epsilon">>

SymA == <<"a">>

SymB == <<"b">>

SymE == <<"eacute">>

SymAB == <<"a", "b">>

Sym0 == <<"0">>

Sym1 == <<"1">>

SymBlank == <<"B">>

SymZ == <<"Z">>


-----------------------------------------------------------------------------
(* Helpers over sets and sequences *)

Range(f) == {f[i] : i \in DOMAIN f}

NonEmptySubsets(S) == SUBSET S \ {{}}

SeqsUpTo(U, n) == UNION {[1..k -> U] : k \in 0..n}

\* the index of the first element of sequence s satisfying Test, 0 when there is none
FirstIndex(s, Test(_)) ==
    IF \E i \in DOMAIN s : Test(s[i])
    THEN CHOOSE i \in DOMAIN s : Test(s[i]) /\ \A j \in 1..(i - 1) : ~Test(s[j])
    ELSE 0

\* the empty HashMap
EmptyMap == <<>>

-----------------------------------------------------------------------------
(* parser.rs: the intermediate description *)

\* parser::StackTransition; sym is the empty text for Pop and NoOp
Push(sym) == [tag |-> "Push", sym |-> sym]

Pop == [tag |-> "Pop", sym |-> <<>>]

NoOp == [tag |-> "NoOp", sym |-> <<>>]

Write(sym) == [tag |-> "Write", sym |-> sym]

\* parser::Direction
Left == "Left"

Right == "Right"

\* parser::TransitionInfo { from: TransitionFrom, to: TransitionTo(state, op, dir) }
TransitionInfo(initial, with_symbol, with_stack_symbol, state, op, dir) ==
    [from |-> [initial |-> initial, with_symbol |-> with_symbol,
               with_stack_symbol |-> with_stack_symbol],
     to   |-> [state |-> state, op |-> op, dir |-> dir]]

\* a transition of the plain form  q(x) => (p)
Plain(initial, with_symbol, state) ==
    TransitionInfo(initial, with_symbol, None, state, None, None)

\* parser::PartialMachineInfo
PartialMachineInfo(states, alphabet, transitions, start_state, final_states, sa, ss, ta, bs) ==
    [states |-> states, alphabet |-> alphabet, transitions |-> transitions,
     start_state |-> start_state, final_states |-> final_states,
     stack_alphabet |-> sa, start_stack |-> ss,
     tape_alphabet |-> ta, blank_symbol |-> bs]

-----------------------------------------------------------------------------
(* parser.rs: Parser::lex *)

Letters ==
    {"a", "b", "c", "d", "e", "f", "g", "h", "i", "j", "k", "l", "m", "n",
     "o", "p", "q", "r", "s", "t", "u", "v", "w", "x", "y", "z", "A", "B",
     "C", "D", "E", "F", "G", "H", "I", "J", "K", "L", "M", "N", "O", "P",
     "Q", "R", "S", "T", "U", "V", "W", "X", "Y", "Z"}

Digits == {"0", "1", "2", "3", "4", "5", "6", "7", "8", "9"}

\* char::is_alphanumeric over the characters of the model
is_alphanumeric(c) == c \in Letters \cup Digits \cup WideChars

\* parser::Token { kind, span }, the span as <<offset, length>> in bytes
Token(token_kind, offset, len) == [kind |-> token_kind, span |-> <<offset, len>>]

\* the value of a Result: Ok(v), or Err(e) with e the error and its fields
ResOk(v) == [ok |-> TRUE, info |-> Some(v), err |-> None]

ResErr(variant, fields) == [ok |-> FALSE, info |-> None, err |-> Some([kind |-> variant] @@ fields)]

\* the call did not return: Option::unwrap on None or panic!
Aborted == [ok |-> FALSE, info |-> None, err |-> None]

is_aborted(r) == ~r.ok /\ is_none(r.err)

is_err(r) == ~r.ok /\ is_some(r.err)

\* the keyword arms of the match on the identifier's text
identifier_kind(identifier) ==
    CASE identifier = <<"P", "U", "S", "H">> -> "Push"
      [] identifier = <<"P", "O", "P">> -> "Pop"
      [] identifier = <<"N", "O", "O", "P">> -> "Noop"
      [] identifier = <<"W", "R", "I", "T", "E">> -> "Write"
      [] identifier = <<"L", "E", "F", "T">> -> "Left"
      [] identifier = <<"R", "I", "G", "H", "T">> -> "Right"
      [] OTHER -> "Identifier"

RECURSIVE comment_end(_, _)
\* the index of the first character from k on that the comment loop leaves
\* unread: the next newline, or one past the end
comment_end(chars, k) ==
    IF k > Len(chars) \/ chars[k] = "\n" THEN k ELSE comment_end(chars, k + 1)

RECURSIVE identifier_end(_, _)
\* the index of the first character from k on that the identifier loop leaves
\* unread
identifier_end(chars, k) ==
    IF k <= Len(chars) /\ (is_alphanumeric(chars[k]) \/ chars[k] = "_")
    THEN identifier_end(chars, k + 1)
    ELSE k

RECURSIVE space_end(_, _)
\* the index of the first character from k on that is not matched by the
\* arm for spaces, which pushes nothing
space_end(chars, k) ==
    IF k <= Len(chars) /\ chars[k] \in {" ", "\t", "\n", "\r"}
    THEN space_end(chars, k + 1)
    ELSE k

\* the loop goes on from character k at byte offset i with these tokens
Continue(k, i, tokens) == [done |-> FALSE, k |-> k, i |-> i, tokens |-> tokens]

\* the arm of the match for `=`; the last token is read with unwrap
lex_equals(chars, k, i, tokens) ==
    IF k + 1 <= Len(chars)
    THEN IF chars[k + 1] # ">"
         THEN [done |-> TRUE,
               res |-> ResErr("UnexpectedCharacter", [at |-> <<i, 1>>, expected |-> ">"])]
         ELSE Continue(k + 2, i + 2, Append(tokens, Token("Arrow", i, 2)))
    ELSE [done |-> TRUE,
          res |-> IF tokens = <<>>
                  THEN Aborted
                  ELSE ResErr("UnexpectedEOF", [last_token |-> Some(tokens[Len(tokens)])])]

OneCharKinds ==
    [c \in {"[", "]", "(", ")", ",", ":"} |->
        CASE c = "[" -> "LeftSquareBracket"
          [] c = "]" -> "RightSquareBracket"
          [] c = "(" -> "LeftParen"
          [] c = ")" -> "RightParen"
          [] c = "," -> "Comma"
          [] c = ":" -> "Colon"]

\* the body of the while loop of lex for character k, which is at byte offset i
lex_step(chars, k, i, tokens) ==
    LET ch == chars[k] IN
    IF ch \in DOMAIN OneCharKinds
    THEN Continue(k + 1, i + 1, Append(tokens, Token(OneCharKinds[ch], i, 1)))
    ELSE IF ch = "="
    THEN lex_equals(chars, k, i, tokens)
    ELSE IF ch \in {" ", "\t", "\n", "\r"}
    THEN LET e == space_end(chars, k + 1) IN Continue(e, i + (e - k), tokens)
    ELSE IF ch = "#"
    THEN LET e == comment_end(chars, k + 1) IN
         Continue(e, i + str_len(SubSeq(chars, k, e - 1)), tokens)
    ELSE LET e == identifier_end(chars, k + 1)
             identifier == SubSeq(chars, k, e - 1)
         IN  Continue(e, i + str_len(identifier),
                      Append(tokens, Token(identifier_kind(identifier), i, str_len(identifier))))

\* the iterations of the while loop of lex that are evaluated as one run
LexRun == 8

RECURSIVE lex_steps(_, _, _, _, _)
\* at most n iterations of the while loop of lex from character k: where
\* the loop stands after them, or the error that ended it
lex_steps(chars, k, i, tokens, n) ==
    IF k > Len(chars) \/ n = 0 THEN Continue(k, i, tokens)
    ELSE LET s == lex_step(chars, k, i, tokens) IN
         IF s.done THEN s ELSE lex_steps(chars, s.k, s.i, s.tokens, n - 1)

RECURSIVE lex_loop_counts_chars(_, _, _, _)
\* mutant of lex_loop: the sentinel is put at the number of characters
lex_loop_counts_chars(chars, k, i, tokens) ==
    IF k > Len(chars)
    THEN ResOk(Append(tokens, Token("EOF", Len(chars), 0)))
    ELSE LET s == lex_steps(chars, k, i, tokens, LexRun) IN
         IF s.done THEN s.res ELSE lex_loop_counts_chars(chars, s.k, s.i, s.tokens)

RECURSIVE lex_loop(_, _, _, _)
\* the while loop of lex from character k, run after run, and the sentinel
\* pushed after it
lex_loop(chars, k, i, tokens) ==
    IF k > Len(chars)
    THEN ResOk(Append(tokens, Token("EOF", str_len(chars), 0)))
    ELSE LET s == lex_steps(chars, k, i, tokens, LexRun) IN
         IF s.done THEN s.res ELSE lex_loop(chars, s.k, s.i, s.tokens)

\* Parser::lex
lex(chars) == lex_loop(chars, 1, 0, <<>>)

-----------------------------------------------------------------------------
(* parser.rs: Parser::parse and the functions it calls.  The Peekable iterator
   is the token list toks with the index i of the token the next call of
   next() returns; next() and peek() answer None once i is past the end. *)

\* the two-byte characters of text that begin before byte offset target
wide_before(text, target) ==
    {j \in DOMAIN text :
        /\ len_utf8(text[j]) = 2
        /\ (j - 1) + Cardinality({m \in 1..(j - 1) : len_utf8(text[m]) = 2}) < target}

\* the index of the character of text at byte offset target, a character
\* boundary: one more than the characters before it, each of one byte or two;
\* one past the end when the text is shorter
char_index(text, target) ==
    LET k == target + 1 - Cardinality(wide_before(text, target))
    IN  IF k > Len(text) THEN Len(text) + 1 ELSE k

\* Token::src: the slice of the source in the byte range of the token's span
token_src(token, text) ==
    LET first == char_index(text, token.span[1])
        after == char_index(text, token.span[1] + token.span[2])
    IN  SubSeq(text, first, after - 1)

\* what a parsing function hands back: its return value, the position the
\* iterator is left at, and how many requests the iterator answered with None
Ret(res, i, nones) == [res |-> res, i |-> i, nones |-> nones]

\* an error variant without fields
NoFields == <<>>

\* `let token = input.next().unwrap(); match token.kind { .. }`: the token when
\* its kind is one of kinds, UnexpectedEOF at the sentinel, UnexpectedToken
\* naming `expected` otherwise; the unwrap aborts when the iterator is exhausted
next_expect(toks, i, kinds, expected) ==
    IF i > Len(toks) THEN Ret(Aborted, i, 1)
    ELSE IF toks[i].kind \in kinds THEN Ret(ResOk(toks[i]), i + 1, 0)
    ELSE IF toks[i].kind = "EOF" THEN Ret(ResErr("UnexpectedEOF", NoFields), i + 1, 0)
    ELSE Ret(ResErr("UnexpectedToken", [at |-> toks[i].span, expected |-> expected]), i + 1, 0)

\* the `?` and the early returns: the rest of the function runs on an Ok only
Then(r, rest(_)) == IF r.res.ok THEN rest(r) ELSE r

\* the token a call of next_expect handed back
TokenOf(r) == unwrap(r.res.info)

\* parse_section with the first next() unwrapped instead of matched
parse_section_unchecked(toks, i) ==
    IF i > Len(toks) THEN Ret(Aborted, i, 1)
    ELSE IF toks[i].kind = "EOF" THEN Ret(ResOk(None), i + 1, 0)
    ELSE IF toks[i].kind # "LeftSquareBracket"
    THEN Ret(ResErr("UnexpectedToken", [at |-> toks[i].span, expected |-> "["]), i + 1, 0)
    ELSE Then(next_expect(toks, i + 1, {"Identifier"}, "<identifier>"), LAMBDA name :
         Then(next_expect(toks, name.i, {"RightSquareBracket"}, "]"), LAMBDA close :
         Ret(ResOk(Some(TokenOf(name))), close.i, 0)))

\* parse_section: Ok(None) at the sentinel or at an exhausted iterator,
\* Ok(Some(name)) after `[` name `]`
parse_section(toks, i) ==
    IF i > Len(toks) THEN Ret(ResOk(None), i, 1)
    ELSE IF toks[i].kind = "EOF" THEN Ret(ResOk(None), i + 1, 0)
    ELSE IF toks[i].kind # "LeftSquareBracket"
    THEN Ret(ResErr("UnexpectedToken", [at |-> toks[i].span, expected |-> "["]), i + 1, 0)
    ELSE Then(next_expect(toks, i + 1, {"Identifier"}, "<identifier>"), LAMBDA name :
         Then(next_expect(toks, name.i, {"RightSquareBracket"}, "]"), LAMBDA close :
         Ret(ResOk(Some(TokenOf(name))), close.i, 0)))

parse_single_section(toks, i) == next_expect(toks, i, {"Identifier"}, "<identifier>")

RECURSIVE list_loop_any_boundary(_, _, _)
\* mutant of list_loop: any token that is not a comma ends the list
list_loop_any_boundary(toks, i, final_states) ==
    IF i > Len(toks) THEN Ret(Aborted, i, 1)
    ELSE IF toks[i].kind = "Identifier"
    THEN IF i + 1 > Len(toks) THEN Ret(Aborted, i + 1, 1)
         ELSE IF toks[i + 1].kind = "Comma"
         THEN list_loop_any_boundary(toks, i + 2, Append(final_states, toks[i]))
         ELSE Ret(ResOk(Append(final_states, toks[i])), i + 1, 0)
    ELSE IF toks[i].kind = "EOF" THEN Ret(ResErr("UnexpectedEOF", NoFields), i + 1, 0)
    ELSE Ret(ResErr("UnexpectedToken", [at |-> toks[i].span, expected |-> "["]), i + 1, 0)

RECURSIVE list_loop(_, _, _)
\* the while loop of parse_list_section; leaving the loop is the panic
list_loop(toks, i, final_states) ==
    IF i > Len(toks) THEN Ret(Aborted, i, 1)
    ELSE IF toks[i].kind = "Identifier"
    THEN IF i + 1 > Len(toks) THEN Ret(Aborted, i + 1, 1)
         ELSE IF toks[i + 1].kind = "Comma"
         THEN list_loop(toks, i + 2, Append(final_states, toks[i]))
         ELSE IF toks[i + 1].kind \in {"EOF", "LeftSquareBracket"}
         THEN Ret(ResOk(Append(final_states, toks[i])), i + 1, 0)
         ELSE Ret(ResErr("UnexpectedToken", [at |-> toks[i + 1].span, expected |-> ","]),
                  i + 1, 0)
    ELSE IF toks[i].kind = "EOF" THEN Ret(ResErr("UnexpectedEOF", NoFields), i + 1, 0)
    ELSE Ret(ResErr("UnexpectedToken", [at |-> toks[i].span, expected |-> "["]), i + 1, 0)

parse_list_section(toks, i) == list_loop(toks, i, <<>>)

\* `if input.peek().unwrap().kind == TokenKind::Comma { .. }`: the unwrap
\* aborts when the iterator is exhausted
IfComma(toks, i, with_comma, without) ==
    IF i > Len(toks) THEN Ret(Aborted, i, 1)
    ELSE IF toks[i].kind = "Comma" THEN with_comma ELSE without

\* a transition from the `(` after its first identifier to the symbol and the
\* optional stack symbol
parse_transition_from(toks, i, token) ==
    Then(next_expect(toks, i, {"LeftParen"}, "("), LAMBDA paren :
    Then(next_expect(toks, paren.i, {"Identifier"}, "<identifier>"), LAMBDA letter :
    IfComma(toks, letter.i,
        Then(next_expect(toks, letter.i + 1, {"Identifier"}, "<identifier>"),
             LAMBDA stack_letter :
             Ret(ResOk([initial |-> token, with_symbol |-> TokenOf(letter),
                        with_stack_symbol |-> Some(TokenOf(stack_letter))]),
                 stack_letter.i, 0)),
        Ret(ResOk([initial |-> token, with_symbol |-> TokenOf(letter),
                   with_stack_symbol |-> None]),
            letter.i, 0))))

\* `:` and the identifier after PUSH or WRITE
parse_operand(toks, i) ==
    Then(next_expect(toks, i, {"Colon"}, ":"), LAMBDA colon :
    next_expect(toks, colon.i, {"Identifier"}, "<identifier>"))

\* the operation and the direction that the token op_token stands for
operation_of(toks, op_token) ==
    CASE TokenOf(op_token).kind \in {"Push", "Write"} ->
            Then(parse_operand(toks, op_token.i), LAMBDA operand :
            Ret(ResOk([op  |-> Some(IF TokenOf(op_token).kind = "Push"
                                    THEN Push(TokenOf(operand)) ELSE Write(TokenOf(operand))),
                       dir |-> None]),
                operand.i, 0))
      [] TokenOf(op_token).kind = "Pop" ->
            Ret(ResOk([op |-> Some(Pop), dir |-> None]), op_token.i, 0)
      [] TokenOf(op_token).kind = "Noop" ->
            Ret(ResOk([op |-> Some(NoOp), dir |-> None]), op_token.i, 0)
      [] TokenOf(op_token).kind = "Left" ->
            Ret(ResOk([op |-> None, dir |-> Some(Left)]), op_token.i, 0)
      [] TokenOf(op_token).kind = "Right" ->
            Ret(ResOk([op |-> None, dir |-> Some(Right)]), op_token.i, 0)

\* the token after the first comma of the right-hand side
parse_operation(toks, i) ==
    Then(next_expect(toks, i, {"Push", "Pop", "Noop", "Write", "Left", "Right"},
                     "PUSH, POP, NOOP, WRITE, LEFT, or RIGHT"),
         LAMBDA op_token : operation_of(toks, op_token))

\* the optional `, direction` after the operation
parse_direction(toks, first) ==
    IfComma(toks, first.i,
        Then(next_expect(toks, first.i + 1, {"Left", "Right"}, "LEFT, RIGHT, or STAY"),
             LAMBDA dir_token :
             Ret(ResOk([op  |-> unwrap(first.res.info).op,
                        dir |-> Some(IF TokenOf(dir_token).kind = "Left" THEN Left ELSE Right)]),
                 dir_token.i, 0)),
        first)

\* the optional `, operation` and `, direction` after the next state
parse_operations(toks, i) ==
    IfComma(toks, i,
        Then(parse_operation(toks, i + 1), LAMBDA first : parse_direction(toks, first)),
        Ret(ResOk([op |-> None, dir |-> None]), i, 0))

\* the right-hand side after its next state
parse_after_next_state(toks, next_state) ==
    IF TokenOf(next_state).kind = "LeftSquareBracket"
    THEN Ret(ResOk([next_section |-> TRUE]), next_state.i, 0)
    ELSE Then(parse_operations(toks, next_state.i), LAMBDA ops :
         Then(next_expect(toks, ops.i, {"RightParen"}, ")"), LAMBDA close :
         Ret(ResOk([next_section |-> FALSE,
                    to |-> [state |-> TokenOf(next_state),
                            op |-> unwrap(ops.res.info).op,
                            dir |-> unwrap(ops.res.info).dir]]),
             close.i, 0)))

\* the right-hand side from the `(` after the arrow to the closing `)`; a `[`
\* where the next state should stand ends the transitions
parse_transition_to(toks, i) ==
    Then(next_expect(toks, i, {"LeftParen"}, "("), LAMBDA paren :
    Then(next_expect(toks, paren.i, {"Identifier", "LeftSquareBracket"}, "<identifier>"),
         LAMBDA next_state : parse_after_next_state(toks, next_state)))

\* one transition, from the token after its first identifier
parse_transition(toks, i, token) ==
    Then(parse_transition_from(toks, i, token), LAMBDA from :
    Then(next_expect(toks, from.i, {"RightParen"}, ")"), LAMBDA close :
    Then(next_expect(toks, close.i, {"Arrow"}, "=>"), LAMBDA arrow :
    Then(parse_transition_to(toks, arrow.i), LAMBDA to :
    IF unwrap(to.res.info).next_section THEN to
    ELSE Ret(ResOk([next_section |-> FALSE,
                    info |-> [from |-> unwrap(from.res.info), to |-> unwrap(to.res.info).to]]),
             to.i, 0)))))

RECURSIVE transitions_loop(_, _, _)
\* the while loop of parse_transitions; leaving the loop is the panic
transitions_loop(toks, i, transitions) ==
    IF i > Len(toks) THEN Ret(Aborted, i, 1)
    ELSE IF toks[i].kind = "Identifier"
    THEN Then(parse_transition(toks, i + 1, toks[i]), LAMBDA t :
         IF unwrap(t.res.info).next_section
         THEN Ret(ResOk(transitions), t.i, 0)
         ELSE transitions_loop(toks, t.i, Append(transitions, unwrap(t.res.info).info)))
    ELSE IF toks[i].kind = "EOF" THEN Ret(ResOk(transitions), i + 1, 0)
    ELSE Ret(ResErr("UnexpectedToken", [at |-> toks[i].span, expected |-> "["]), i + 1, 0)

parse_transitions(toks, i) == transitions_loop(toks, i, <<>>)

\* the section names parse matches on
Name_initial == <<"i", "n", "i", "t", "i", "a", "l">>

Name_final == <<"f", "i", "n", "a", "l">>

Name_states == <<"s", "t", "a", "t", "e", "s">>

Name_alphabet == <<"a", "l", "p", "h", "a", "b", "e", "t">>

Name_stack_alphabet == <<"s", "t", "a", "c", "k", "_", "a", "l", "p", "h", "a", "b", "e", "t">>

Name_start_stack == <<"s", "t", "a", "r", "t", "_", "s", "t", "a", "c", "k">>

Name_tape_alphabet == <<"t", "a", "p", "e", "_", "a", "l", "p", "h", "a", "b", "e", "t">>

Name_blank_symbol == <<"b", "l", "a", "n", "k", "_", "s", "y", "m", "b", "o", "l">>

Name_transitions == <<"t", "r", "a", "n", "s", "i", "t", "i", "o", "n", "s">>

SectionNames ==
    {Name_initial, Name_final, Name_states, Name_alphabet, Name_stack_alphabet,
     Name_start_stack, Name_tape_alphabet, Name_blank_symbol, Name_transitions}

\* the locals of parse before the loop
NoSections ==
    [states |-> None, alphabet |-> None, stack_alphabet |-> None, start_stack |-> None,
     transitions |-> None, start_state |-> None, final_states |-> None,
     tape_alphabet |-> None, blank_symbol |-> None]

\* the body of the section of that name
parse_body(name, toks, i) ==
    IF name \in {Name_initial, Name_start_stack, Name_blank_symbol}
    THEN parse_single_section(toks, i)
    ELSE IF name = Name_transitions
    THEN parse_transitions(toks, i)
    ELSE parse_list_section(toks, i)

\* the local a section assigns, as the name of its field
FieldOf(name) ==
    CASE name = Name_initial -> "start_state"
      [] name = Name_final -> "final_states"
      [] name = Name_states -> "states"
      [] name = Name_alphabet -> "alphabet"
      [] name = Name_stack_alphabet -> "stack_alphabet"
      [] name = Name_start_stack -> "start_stack"
      [] name = Name_tape_alphabet -> "tape_alphabet"
      [] name = Name_blank_symbol -> "blank_symbol"
      [] name = Name_transitions -> "transitions"

\* parse_finish naming the field before the absent one
parse_finish_misnamed(f) ==
    IF is_none(f.states) THEN ResErr("MissingSection", [section |-> "final_states"])
    ELSE IF is_none(f.alphabet) THEN ResErr("MissingSection", [section |-> "states"])
    ELSE IF is_none(f.transitions) THEN ResErr("MissingSection", [section |-> "alphabet"])
    ELSE IF is_none(f.start_state) THEN ResErr("MissingSection", [section |-> "transitions"])
    ELSE IF is_none(f.final_states) THEN ResErr("MissingSection", [section |-> "start_state"])
    ELSE ResOk(PartialMachineInfo(unwrap(f.states), unwrap(f.alphabet), unwrap(f.transitions),
                                  unwrap(f.start_state), unwrap(f.final_states),
                                  f.stack_alphabet, f.start_stack,
                                  f.tape_alphabet, f.blank_symbol))

\* the ok_or chain that builds the PartialMachineInfo
parse_finish(f) ==
    IF is_none(f.states) THEN ResErr("MissingSection", [section |-> "states"])
    ELSE IF is_none(f.alphabet) THEN ResErr("MissingSection", [section |-> "alphabet"])
    ELSE IF is_none(f.transitions) THEN ResErr("MissingSection", [section |-> "transitions"])
    ELSE IF is_none(f.start_state) THEN ResErr("MissingSection", [section |-> "start_state"])
    ELSE IF is_none(f.final_states) THEN ResErr("MissingSection", [section |-> "final_states"])
    ELSE ResOk(PartialMachineInfo(unwrap(f.states), unwrap(f.alphabet), unwrap(f.transitions),
                                  unwrap(f.start_state), unwrap(f.final_states),
                                  f.stack_alphabet, f.start_stack,
                                  f.tape_alphabet, f.blank_symbol))

RECURSIVE parse_loop(_, _, _, _, _, _)
\* what parse does with the section whose name token is `section`, its body
\* starting at token i
parse_named(text, toks, i, f, seen_sections, nones, section, name) ==
    IF section \in seen_sections
    THEN Ret(ResErr("DuplicateSection", [at |-> section.span, other |-> section.span]), i, nones)
    ELSE IF name \notin SectionNames
    THEN Ret(ResErr("UnknownSectionName", [at |-> section.span]), i, nones)
    ELSE Then(parse_body(name, toks, i), LAMBDA body :
         parse_loop(text, toks, body.i,
                    [f EXCEPT ![FieldOf(name)] = Some(unwrap(body.res.info))],
                    seen_sections \cup {section}, nones))

\* what parse does with the value s of parse_section
parse_after_section(text, toks, f, seen_sections, nones, s) ==
    IF ~s.res.ok THEN s
    ELSE IF is_none(unwrap(s.res.info)) THEN Ret(parse_finish(f), s.i, nones + s.nones)
    ELSE parse_named(text, toks, s.i, f, seen_sections, nones,
                     unwrap(unwrap(s.res.info)), token_src(unwrap(unwrap(s.res.info)), text))

\* the loop of parse: f holds the nine locals, seen_sections the HashSet<Token>
parse_loop(text, toks, i, f, seen_sections, nones) ==
    parse_after_section(text, toks, f, seen_sections, nones, parse_section(toks, i))

\* Parser::parse
parse(text, toks) == parse_loop(text, toks, 1, NoSections, {}, 0)

-----------------------------------------------------------------------------
(* The validators' return values: miette::Result<Info> *)

Ok(info) == [ok |-> TRUE, info |-> Some(info), err |-> None]

\* an error value: its variant and the text of the token(s) it points at
Err(variant, at) == [ok |-> FALSE, info |-> None, err |-> Some([kind |-> variant, at |-> at])]

ErrKind(o) == IF o.ok THEN "none" ELSE unwrap(o.err).kind

\* machine::TransitionFrom, the key of the dfa and nfa tables
TransitionFrom(initial, with_symbol) == <<initial, with_symbol>>

-----------------------------------------------------------------------------
(* machine/dfa.rs: Info::new *)

\* HashMap::contains_key on the table being built
dfa_contains_key(transitions, key) == key \in DOMAIN transitions

\* mutant of dfa_check_transition: the direction is not looked at
dfa_check_transition_no_direction(transition, states, alphabet, transitions) ==
    LET from_state == transition.from.initial
        symbol     == transition.from.with_symbol
        to_state   == transition.to.state
        key        == TransitionFrom(from_state, symbol)
    IN  IF is_some(transition.from.with_stack_symbol)
        THEN Some(Err("StackOperationsNotAllowed", <<>>))
        ELSE IF is_some(transition.to.op)
                /\ unwrap(transition.to.op).tag \in {"Push", "Pop", "NoOp"}
        THEN Some(Err("StackOperationsNotAllowed", <<>>))
        ELSE IF is_some(transition.to.op)
        THEN Some(Err("TapeOperationsNotAllowed", <<>>))
        ELSE IF from_state \notin states
        THEN Some(Err("UnknownState", <<from_state>>))
        ELSE IF to_state \notin states
        THEN Some(Err("UnknownState", <<to_state>>))
        ELSE IF symbol \notin alphabet
        THEN Some(Err("UnknownAlphabetSymbol", <<symbol>>))
        ELSE IF dfa_contains_key(transitions, key)
        THEN Some(Err("MultipleTransitions", <<from_state, symbol>>))
        ELSE None

\* the per-transition checks of the loop, in the order of the code; None when all pass
dfa_check_transition(transition, states, alphabet, transitions) ==
    LET from_state == transition.from.initial
        symbol     == transition.from.with_symbol
        to_state   == transition.to.state
        key        == TransitionFrom(from_state, symbol)
    IN  IF is_some(transition.from.with_stack_symbol)
        THEN Some(Err("StackOperationsNotAllowed", <<>>))
        ELSE IF is_some(transition.to.op)
                /\ unwrap(transition.to.op).tag \in {"Push", "Pop", "NoOp"}
        THEN Some(Err("StackOperationsNotAllowed", <<>>))
        ELSE IF is_some(transition.to.op)
        THEN Some(Err("TapeOperationsNotAllowed", <<>>))
        ELSE IF is_some(transition.to.dir)
        THEN Some(Err("TapeOperationsNotAllowed", <<>>))
        ELSE IF from_state \notin states
        THEN Some(Err("UnknownState", <<from_state>>))
        ELSE IF to_state \notin states
        THEN Some(Err("UnknownState", <<to_state>>))
        ELSE IF symbol \notin alphabet
        THEN Some(Err("UnknownAlphabetSymbol", <<symbol>>))
        ELSE IF dfa_contains_key(transitions, key)
        THEN Some(Err("MultipleTransitions", <<from_state, symbol>>))
        ELSE None

RECURSIVE dfa_fold_transitions(_, _, _, _)
\* the loop over machine.transitions: the table, or the first error
dfa_fold_transitions(trs, states, alphabet, transitions) ==
    IF trs = <<>>
    THEN [ok |-> TRUE, table |-> transitions, err |-> None]
    ELSE LET transition == Head(trs)
             bad        == dfa_check_transition(transition, states, alphabet, transitions)
             key        == TransitionFrom(transition.from.initial, transition.from.with_symbol)
         IN  IF is_some(bad)
             THEN [ok |-> FALSE, table |-> transitions, err |-> bad]
             ELSE dfa_fold_transitions(Tail(trs), states, alphabet,
                                       (key :> transition.to.state) @@ transitions)

\* mutant of dfa_missing_pairs: the completeness loop left out
dfa_missing_pairs_skipped(states, alphabet, transitions) == {}

\* the pairs the completeness loop finds without an entry
dfa_missing_pairs(states, alphabet, transitions) ==
    {key \in states \X alphabet : ~dfa_contains_key(transitions, key)}

\* Info::new: the set of values it can return.  It is a single value except for an
\* incomplete table, where the pair named is the first one met in the iteration
\* order of the two HashSets, which is any missing pair.
dfa_Info_new(m) ==
    IF is_some(m.stack_alphabet) \/ is_some(m.start_stack)
    THEN {Err("StackOperationsNotAllowed", <<>>)}
    ELSE IF is_some(m.tape_alphabet) \/ is_some(m.blank_symbol)
    THEN {Err("TapeOperationsNotAllowed", <<>>)}
    ELSE
    LET states       == Range(m.states)
        alphabet     == Range(m.alphabet)
        unknownFinal == FirstIndex(m.final_states, LAMBDA f : f \notin states)
        folded       == dfa_fold_transitions(m.transitions, states, alphabet, EmptyMap)
        missing      == dfa_missing_pairs(states, alphabet, folded.table)
    IN  IF unknownFinal # 0
        THEN {Err("UnknownState", <<m.final_states[unknownFinal]>>)}
        ELSE IF m.start_state \notin states
        THEN {Err("UnknownState", <<m.start_state>>)}
        ELSE IF ~folded.ok
        THEN {unwrap(folded.err)}
        ELSE IF missing # {}
        THEN {Err("IncompleteDFA", key) : key \in missing}
        ELSE {Ok([alphabet     |-> alphabet,
                  transitions  |-> folded.table,
                  start_state  |-> m.start_state,
                  final_states |-> Range(m.final_states)])}

-----------------------------------------------------------------------------
(* machine/nfa.rs: Info::new *)

\* transitions.entry(key).or_insert_with(Vec::new).push(value)
entry_push(transitions, key, value) ==
    IF key \in DOMAIN transitions
    THEN [transitions EXCEPT ![key] = Append(@, value)]
    ELSE (key :> <<value>>) @@ transitions

\* mutant of nfa_check_transition: the destination state is not looked up
nfa_check_transition_no_to_state(transition, states, alphabet) ==
    LET from_state == transition.from.initial
        symbol     == transition.from.with_symbol
    IN  IF is_some(transition.from.with_stack_symbol) \/ is_some(transition.to.op)
        THEN Some(Err("StackOperationsNotAllowed", <<>>))
        ELSE IF is_some(transition.to.dir)
        THEN Some(Err("TapeOperationsNotAllowed", <<>>))
        ELSE IF from_state \notin states
        THEN Some(Err("UnknownState", <<from_state>>))
        ELSE IF symbol \notin alphabet
        THEN Some(Err("UnknownAlphabetSymbol", <<symbol>>))
        ELSE None

\* the per-transition checks of the loop, in the order of the code; None when all pass
nfa_check_transition(transition, states, alphabet) ==
    LET from_state == transition.from.initial
        symbol     == transition.from.with_symbol
        to_state   == transition.to.state
    IN  IF is_some(transition.from.with_stack_symbol) \/ is_some(transition.to.op)
        THEN Some(Err("StackOperationsNotAllowed", <<>>))
        ELSE IF is_some(transition.to.dir)
        THEN Some(Err("TapeOperationsNotAllowed", <<>>))
        ELSE IF from_state \notin states
        THEN Some(Err("UnknownState", <<from_state>>))
        ELSE IF to_state \notin states
        THEN Some(Err("UnknownState", <<to_state>>))
        ELSE IF symbol \notin alphabet
        THEN Some(Err("UnknownAlphabetSymbol", <<symbol>>))
        ELSE None

RECURSIVE nfa_fold_transitions(_, _, _, _)
\* the loop over machine.transitions: the table, or the first error
nfa_fold_transitions(trs, states, alphabet, transitions) ==
    IF trs = <<>>
    THEN [ok |-> TRUE, table |-> transitions, err |-> None]
    ELSE LET transition == Head(trs)
             bad        == nfa_check_transition(transition, states, alphabet)
             key        == TransitionFrom(transition.from.initial, transition.from.with_symbol)
         IN  IF is_some(bad)
             THEN [ok |-> FALSE, table |-> transitions, err |-> bad]
             ELSE nfa_fold_transitions(Tail(trs), states, alphabet,
                                       entry_push(transitions, key, transition.to.state))

\* Info::new: the set of values it can return (always one)
nfa_Info_new(m) ==
    IF is_some(m.stack_alphabet) \/ is_some(m.start_stack)
    THEN {Err("StackOperationsNotAllowed", <<>>)}
    ELSE IF is_some(m.tape_alphabet) \/ is_some(m.blank_symbol)
    THEN {Err("TapeOperationsNotAllowed", <<>>)}
    ELSE
    LET states       == Range(m.states)
        alphabet     == Range(m.alphabet) \cup {EPSILON}
        unknownFinal == FirstIndex(m.final_states, LAMBDA f : f \notin states)
        folded       == nfa_fold_transitions(m.transitions, states, alphabet, EmptyMap)
    IN  IF unknownFinal # 0
        THEN {Err("UnknownState", <<m.final_states[unknownFinal]>>)}
        ELSE IF m.start_state \notin states
        THEN {Err("UnknownState", <<m.start_state>>)}
        ELSE IF ~folded.ok
        THEN {unwrap(folded.err)}
        ELSE {Ok([alphabet     |-> alphabet,
                  transitions  |-> folded.table,
                  start_state  |-> m.start_state,
                  final_states |-> Range(m.final_states)])}

-----------------------------------------------------------------------------
(* machine/pda.rs: Info::new *)

\* pda::PDATransitionFrom, the key of the pda table; stack_top is an Option
PDATransitionFrom(initial, with_symbol, stack_top) == <<initial, with_symbol, stack_top>>

\* pda::PDATransitionTo; stack_action is Push(sym), Pop or NoOp
PDATransitionTo(state, stack_action) == [state |-> state, stack_action |-> stack_action]

\* mutant of pda_unknown_stack_symbol: no stack symbol is looked up
pda_unknown_stack_symbol_never(stack_alphabet, symbol) == FALSE

\* the guard the code puts on every stack symbol it meets
pda_unknown_stack_symbol(stack_alphabet, symbol) ==
    stack_alphabet # {} /\ symbol \notin stack_alphabet

\* mutant of pda_check_transition: the states are looked up before the stack
\* action is required
pda_check_transition_states_first(transition, states, alphabet, stack_alphabet) ==
    LET from_state == transition.from.initial
        symbol     == transition.from.with_symbol
        to_state   == transition.to.state
        stack_sym  == transition.from.with_stack_symbol
        op         == transition.to.op
    IN  IF from_state \notin states
        THEN Some(Err("UnknownState", <<from_state>>))
        ELSE IF to_state \notin states
        THEN Some(Err("UnknownState", <<to_state>>))
        ELSE IF is_none(op)
        THEN Some(Err("StackOperationsRequired", <<>>))
        ELSE IF symbol \notin alphabet /\ symbol # EPSILON
        THEN Some(Err("UnknownAlphabetSymbol", <<symbol>>))
        ELSE IF is_some(stack_sym) /\ pda_unknown_stack_symbol(stack_alphabet, unwrap(stack_sym))
        THEN Some(Err("UnknownAlphabetSymbol", <<unwrap(stack_sym)>>))
        ELSE IF unwrap(op).tag = "Push" /\ pda_unknown_stack_symbol(stack_alphabet, unwrap(op).sym)
        THEN Some(Err("UnknownAlphabetSymbol", <<unwrap(op).sym>>))
        ELSE IF unwrap(op).tag = "Write"
        THEN Some(Err("NoArmForWrite", <<>>))
        ELSE None

\* the per-transition checks of the loop, in the order of the code; None when all pass.
\* The match on the stack action has no arm for StackTransition::Write: the model
\* names that case "NoArmForWrite" and no description the specifications draw has it.
pda_check_transition(transition, states, alphabet, stack_alphabet) ==
    LET from_state == transition.from.initial
        symbol     == transition.from.with_symbol
        to_state   == transition.to.state
        stack_sym  == transition.from.with_stack_symbol
        op         == transition.to.op
    IN  IF is_none(op)
        THEN Some(Err("StackOperationsRequired", <<>>))
        ELSE IF from_state \notin states
        THEN Some(Err("UnknownState", <<from_state>>))
        ELSE IF to_state \notin states
        THEN Some(Err("UnknownState", <<to_state>>))
        ELSE IF symbol \notin alphabet /\ symbol # EPSILON
        THEN Some(Err("UnknownAlphabetSymbol", <<symbol>>))
        ELSE IF is_some(stack_sym) /\ pda_unknown_stack_symbol(stack_alphabet, unwrap(stack_sym))
        THEN Some(Err("UnknownAlphabetSymbol", <<unwrap(stack_sym)>>))
        ELSE IF unwrap(op).tag = "Push" /\ pda_unknown_stack_symbol(stack_alphabet, unwrap(op).sym)
        THEN Some(Err("UnknownAlphabetSymbol", <<unwrap(op).sym>>))
        ELSE IF unwrap(op).tag = "Write"
        THEN Some(Err("NoArmForWrite", <<>>))
        ELSE None

RECURSIVE pda_fold_transitions(_, _, _, _, _)
\* the loop over machine.transitions: the table, or the first error
pda_fold_transitions(trs, states, alphabet, stack_alphabet, transitions) ==
    IF trs = <<>>
    THEN [ok |-> TRUE, table |-> transitions, err |-> None]
    ELSE LET transition == Head(trs)
             bad   == pda_check_transition(transition, states, alphabet, stack_alphabet)
             key   == PDATransitionFrom(transition.from.initial, transition.from.with_symbol,
                                        transition.from.with_stack_symbol)
             value == PDATransitionTo(transition.to.state, unwrap(transition.to.op))
         IN  IF is_some(bad)
             THEN [ok |-> FALSE, table |-> transitions, err |-> bad]
             ELSE pda_fold_transitions(Tail(trs), states, alphabet, stack_alphabet,
                                       entry_push(transitions, key, value))

\* Info::new: the set of values it can return (always one)
pda_Info_new(m) ==
    LET states         == Range(m.states)
        alphabet       == Range(m.alphabet) \cup {EPSILON}
        stack_alphabet == Range(unwrap(m.stack_alphabet))
        unknownFinal   == FirstIndex(m.final_states, LAMBDA f : f \notin states)
        folded         == pda_fold_transitions(m.transitions, states, alphabet,
                                               stack_alphabet, EmptyMap)
    IN  IF is_none(m.stack_alphabet)
        THEN {Err("StackOperationsRequired", <<>>)}
        ELSE IF is_some(m.start_stack)
                /\ pda_unknown_stack_symbol(stack_alphabet, unwrap(m.start_stack))
        THEN {Err("UnknownAlphabetSymbol", <<unwrap(m.start_stack)>>)}
        ELSE IF unknownFinal # 0
        THEN {Err("UnknownState", <<m.final_states[unknownFinal]>>)}
        ELSE IF m.start_state \notin states
        THEN {Err("UnknownState", <<m.start_state>>)}
        ELSE IF ~folded.ok
        THEN {unwrap(folded.err)}
        ELSE {Ok([alphabet           |-> alphabet,
                  stack_alphabet     |-> stack_alphabet,
                  transitions        |-> folded.table,
                  start_state        |-> m.start_state,
                  final_states       |-> Range(m.final_states),
                  start_stack_symbol |-> m.start_stack])}

-----------------------------------------------------------------------------
(* machine/tm.rs: Info::new *)

\* tm::TMTransitionFrom, the key of the tm table
TMTransitionFrom(initial, with_symbol) == <<initial, with_symbol>>

\* tm::TMTransitionTo
TMTransitionTo(state, write_symbol, direction) ==
    [state |-> state, write_symbol |-> write_symbol, direction |-> direction]

\* mutant of map_insert: an earlier value for the same key is kept
map_insert_keeps_first(transitions, key, value) == transitions @@ (key :> value)

\* HashMap::insert: a later value for the same key replaces the earlier one
map_insert(transitions, key, value) == (key :> value) @@ transitions

\* mutant of tm_check_transition: the write symbol is not looked up
tm_check_transition_any_write(transition, states, tape_alphabet) ==
    LET from_state  == transition.from.initial
        with_symbol == transition.from.with_symbol
        to_state    == transition.to.state
        op          == transition.to.op
    IN  IF from_state \notin states
        THEN Some(Err("UnknownState", <<from_state>>))
        ELSE IF with_symbol # EPSILON /\ with_symbol \notin tape_alphabet
        THEN Some(Err("UnknownTapeSymbol", <<with_symbol>>))
        ELSE IF to_state \notin states
        THEN Some(Err("UnknownState", <<to_state>>))
        ELSE IF is_none(op) \/ unwrap(op).tag # "Write"
        THEN Some(Err("MissingTapeOperation", <<>>))
        ELSE IF is_none(transition.to.dir)
        THEN Some(Err("MissingSection", <<"direction">>))
        ELSE None

\* the per-transition checks of the loop, in the order of the code; None when all pass
tm_check_transition(transition, states, tape_alphabet) ==
    LET from_state  == transition.from.initial
        with_symbol == transition.from.with_symbol
        to_state    == transition.to.state
        op          == transition.to.op
    IN  IF from_state \notin states
        THEN Some(Err("UnknownState", <<from_state>>))
        ELSE IF with_symbol # EPSILON /\ with_symbol \notin tape_alphabet
        THEN Some(Err("UnknownTapeSymbol", <<with_symbol>>))
        ELSE IF to_state \notin states
        THEN Some(Err("UnknownState", <<to_state>>))
        ELSE IF is_none(op) \/ unwrap(op).tag # "Write"
        THEN Some(Err("MissingTapeOperation", <<>>))
        ELSE IF unwrap(op).sym \notin tape_alphabet
        THEN Some(Err("UnknownTapeSymbol", <<unwrap(op).sym>>))
        ELSE IF is_none(transition.to.dir)
        THEN Some(Err("MissingSection", <<"direction">>))
        ELSE None

RECURSIVE tm_fold_transitions(_, _, _, _)
\* the loop over machine_info.transitions: the table, or the first error
tm_fold_transitions(trs, states, tape_alphabet, transitions) ==
    IF trs = <<>>
    THEN [ok |-> TRUE, table |-> transitions, err |-> None]
    ELSE LET transition == Head(trs)
             bad   == tm_check_transition(transition, states, tape_alphabet)
             key   == TMTransitionFrom(transition.from.initial, transition.from.with_symbol)
             value == TMTransitionTo(transition.to.state, unwrap(transition.to.op).sym,
                                     unwrap(transition.to.dir))
         IN  IF is_some(bad)
             THEN [ok |-> FALSE, table |-> transitions, err |-> bad]
             ELSE tm_fold_transitions(Tail(trs), states, tape_alphabet,
                                      map_insert(transitions, key, value))

\* mutant of tm_Info_new: the blank symbol is required before the tape alphabet
tm_Info_new_blank_first(m) ==
    LET states        == Range(m.states)
        alphabet      == Range(m.alphabet)
        tape_alphabet == Range(unwrap(m.tape_alphabet))
        final_states  == Range(m.final_states)
        unknownFinals == {f \in final_states : f \notin states}
        folded        == tm_fold_transitions(m.transitions, states, tape_alphabet, EmptyMap)
    IN  IF is_none(m.blank_symbol)
        THEN {Err("MissingSection", <<"blank_symbol">>)}
        ELSE IF is_none(m.tape_alphabet)
        THEN {Err("MissingSection", <<"tape_alphabet">>)}
        ELSE IF unknownFinals # {}
        THEN {Err("UnknownState", <<f>>) : f \in unknownFinals}
        ELSE IF m.start_state \notin states
        THEN {Err("UnknownState", <<m.start_state>>)}
        ELSE IF ~folded.ok
        THEN {unwrap(folded.err)}
        ELSE {Ok([alphabet     |-> alphabet,
                  transitions  |-> folded.table,
                  start_state  |-> m.start_state,
                  final_states |-> final_states,
                  blank_symbol |-> unwrap(m.blank_symbol)])}

\* Info::new: the set of values it can return.  It is a single value except when
\* several final states are undeclared: the one reported is the first met in the
\* iteration order of the final_states HashSet, which is any of them.
tm_Info_new(m) ==
    LET states        == Range(m.states)
        alphabet      == Range(m.alphabet)
        tape_alphabet == Range(unwrap(m.tape_alphabet))
        final_states  == Range(m.final_states)
        unknownFinals == {f \in final_states : f \notin states}
        folded        == tm_fold_transitions(m.transitions, states, tape_alphabet, EmptyMap)
    IN  IF is_none(m.tape_alphabet)
        THEN {Err("MissingSection", <<"tape_alphabet">>)}
        ELSE IF is_none(m.blank_symbol)
        THEN {Err("MissingSection", <<"blank_symbol">>)}
        ELSE IF unknownFinals # {}
        THEN {Err("UnknownState", <<f>>) : f \in unknownFinals}
        ELSE IF m.start_state \notin states
        THEN {Err("UnknownState", <<m.start_state>>)}
        ELSE IF ~folded.ok
        THEN {unwrap(folded.err)}
        ELSE {Ok([alphabet     |-> alphabet,
                  transitions  |-> folded.table,
                  start_state  |-> m.start_state,
                  final_states |-> final_states,
                  blank_symbol |-> unwrap(m.blank_symbol)])}

-----------------------------------------------------------------------------
(* machine/dfa.rs: Machine *)

\* mutant of dfa_symbol_matches: the length of the symbol is not looked at
dfa_symbol_matches_any_length(s, c) == Head(s) = c

\* the closure of find in dfa::Machine::run: the text s is one byte long and its
\* first character is c
dfa_symbol_matches(s, c) == str_len(s) = 1 /\ Head(s) = c

\* alphabet.iter().find(..): Some(symbol) or None.  At most one text of the set
\* is one byte long and starts with c, so the iteration order does not matter.
dfa_find_symbol(info, c) ==
    IF \E s \in info.alphabet : dfa_symbol_matches(s, c)
    THEN Some(CHOOSE s \in info.alphabet : dfa_symbol_matches(s, c))
    ELSE None

\* Iterator::find: the first element of the iteration the closure holds of
find_first(hits) == IF hits = <<>> THEN None ELSE Some(hits[1])

\* alphabet.iter().find(..) when the HashSet hands its elements out in `order`
dfa_find_in_order(order, c) ==
    find_first(SelectSeq(order, LAMBDA s : dfa_symbol_matches(s, c)))

\* HashMap::get on the dfa table
dfa_get(info, key) ==
    IF key \in DOMAIN info.transitions THEN Some(info.transitions[key]) ELSE None

\* the state in which the validated Info is held
TheInfo == unwrap(unwrap(outcome).info)

\* Machine::new
DfaNew ==
    /\ pc = "new" /\ kind = "dfa"
    /\ current' = TheInfo.start_state
    /\ pc' = "run"
    /\ UNCHANGED <<src, lexed, parsed, kind, machine, outcome, input, position, stack, tape, head, made_transition, result, last>>

\* one iteration of the for loop of run, on the character at `position`
DfaStep ==
    /\ pc = "run" /\ kind = "dfa"
    /\ position < Len(input)
    /\ LET c      == input[position + 1]
           symbol == dfa_find_symbol(TheInfo, c)
           to     == dfa_get(TheInfo, TransitionFrom(current, unwrap(symbol)))
       IN  IF is_none(symbol)
           THEN /\ result' = Some(FALSE)
                /\ pc' = "done"
                /\ last' = Some("not_in_alphabet")
                /\ UNCHANGED <<current, position>>
           ELSE IF is_none(to)
           THEN /\ result' = Some(FALSE)
                /\ pc' = "done"
                /\ last' = Some("no_transition")
                /\ UNCHANGED <<current, position>>
           ELSE /\ current' = unwrap(to)
                /\ position' = position + 1
                /\ last' = Some("moved")
                /\ UNCHANGED <<pc, result>>
    /\ UNCHANGED <<src, lexed, parsed, kind, machine, outcome, input, stack, tape, head, made_transition>>

\* the end of run: the input is consumed
DfaReturn ==
    /\ pc = "run" /\ kind = "dfa"
    /\ position = Len(input)
    /\ result' = Some(current \in TheInfo.final_states)
    /\ pc' = "done"
    /\ last' = Some("end_of_input")
    /\ UNCHANGED <<src, lexed, parsed, kind, machine, outcome, input, position, current, stack, tape, head, made_transition>>

-----------------------------------------------------------------------------
(* machine/nfa.rs: Machine *)

\* the orders in which a HashSet may hand out its elements
Orders(S) == {o \in [1..Cardinality(S) -> S] : Range(o) = S}

\* the closure of find in nfa::Machine::find_symbol
nfa_symbol_matches(s, c) == str_len(s) = 1 /\ s # EPSILON /\ Head(s) = c

\* Machine::find_symbol
nfa_find_symbol(info, c) ==
    IF \E s \in info.alphabet : nfa_symbol_matches(s, c)
    THEN Some(CHOOSE s \in info.alphabet : nfa_symbol_matches(s, c))
    ELSE None

\* Machine::find_symbol when the HashSet hands its elements out in `order`
nfa_find_in_order(order, c) ==
    find_first(SelectSeq(order, LAMBDA s : nfa_symbol_matches(s, c)))

\* info.transitions.get(&key) as a list: the destinations, or none
nfa_get(info, key) ==
    IF key \in DOMAIN info.transitions THEN info.transitions[key] ELSE <<>>

RECURSIVE closure_visit_mutant(_, _, _)
\* mutant of closure_visit: a new target joins the closure but is not pushed
closure_visit_mutant(targets, closure, worklist) ==
    IF targets = <<>>
    THEN [closure |-> closure, worklist |-> worklist]
    ELSE closure_visit_mutant(Tail(targets), closure \cup {Head(targets)}, worklist)

RECURSIVE closure_visit(_, _, _)
\* compute_epsilon_closure: the for loop over the epsilon transitions of one state
closure_visit(targets, closure, worklist) ==
    IF targets = <<>>
    THEN [closure |-> closure, worklist |-> worklist]
    ELSE LET target_state == Head(targets) IN
         IF target_state \notin closure
         THEN closure_visit(Tail(targets), closure \cup {target_state},
                            Append(worklist, target_state))
         ELSE closure_visit(Tail(targets), closure, worklist)

RECURSIVE closure_loop(_, _, _)
\* compute_epsilon_closure: the while loop popping the Vec called stack
closure_loop(info, closure, worklist) ==
    IF worklist = <<>>
    THEN closure
    ELSE LET state   == worklist[Len(worklist)]
             rest    == SubSeq(worklist, 1, Len(worklist) - 1)
             visited == closure_visit(nfa_get(info, TransitionFrom(state, EPSILON)),
                                      closure, rest)
         IN  closure_loop(info, visited.closure, visited.worklist)

\* mutant of compute_epsilon_closure: the states are returned as they are
compute_epsilon_closure_skipped(info, states, order) == states

\* Machine::compute_epsilon_closure, the states being collected into the Vec in
\* the given order
compute_epsilon_closure(info, states, order) == closure_loop(info, states, order)

\* Machine::get_next_states before the closure: the union of the destinations
nfa_destinations(info, current_states, symbol) ==
    UNION {Range(nfa_get(info, TransitionFrom(current_state, symbol))) :
           current_state \in current_states}

RECURSIVE nfa_destinations_in_order(_, _, _, _)
\* Machine::get_next_states before the closure: the for loop over
\* current_states, handed out in `order`, inserting into next_states
nfa_destinations_in_order(info, order, symbol, next_states) ==
    IF order = <<>> THEN next_states
    ELSE nfa_destinations_in_order(
             info, Tail(order), symbol,
             next_states \cup Range(nfa_get(info, TransitionFrom(Head(order), symbol))))

\* Machine::new
NfaNew ==
    /\ pc = "new" /\ kind = "nfa"
    /\ \E order \in Orders({TheInfo.start_state}) :
           current' = compute_epsilon_closure(TheInfo, {TheInfo.start_state}, order)
    /\ pc' = "run"
    /\ UNCHANGED <<src, lexed, parsed, kind, machine, outcome, input, position, stack, tape, head, made_transition, result, last>>

\* one iteration of the for loop of run, on the character at `position`
NfaStep ==
    /\ pc = "run" /\ kind = "nfa"
    /\ position < Len(input)
    /\ LET c      == input[position + 1]
           symbol == nfa_find_symbol(TheInfo, c)
       IN  IF is_none(symbol)
           THEN /\ result' = Some(FALSE)
                /\ pc' = "done"
                /\ last' = Some("not_in_alphabet")
                /\ UNCHANGED <<current, position>>
           ELSE LET next_states == nfa_destinations(TheInfo, current, unwrap(symbol)) IN
                \E order \in Orders(next_states) :
                    /\ current' = compute_epsilon_closure(TheInfo, next_states, order)
                    /\ IF current' = {}
                       THEN /\ result' = Some(FALSE)
                            /\ pc' = "done"
                            /\ last' = Some("no_transition")
                            /\ UNCHANGED position
                       ELSE /\ position' = position + 1
                            /\ last' = Some("moved")
                            /\ UNCHANGED <<pc, result>>
    /\ UNCHANGED <<src, lexed, parsed, kind, machine, outcome, input, stack, tape, head, made_transition>>

\* the end of run: the input is consumed
NfaReturn ==
    /\ pc = "run" /\ kind = "nfa"
    /\ position = Len(input)
    /\ result' = Some(\E state \in current : state \in TheInfo.final_states)
    /\ pc' = "done"
    /\ last' = Some("end_of_input")
    /\ UNCHANGED <<src, lexed, parsed, kind, machine, outcome, input, position, current, stack, tape, head, made_transition>>

-----------------------------------------------------------------------------
(* machine/pda.rs: Machine *)

\* the deepest stack the model follows; a step that would exceed it is not taken
MaxStack == 3

\* VecDeque::back().copied()
pda_back(st) == IF st = <<>> THEN None ELSE Some(st[Len(st)])

\* the closure of find in pda::Machine::find_symbol
pda_symbol_matches(s, c) == str_len(s) = 1 /\ s # EPSILON /\ Head(s) = c

\* Machine::find_symbol
pda_find_symbol(info, c) ==
    IF \E s \in info.alphabet : pda_symbol_matches(s, c)
    THEN Some(CHOOSE s \in info.alphabet : pda_symbol_matches(s, c))
    ELSE None

\* Machine::find_symbol when the HashSet hands its elements out in `order`
pda_find_in_order(order, c) ==
    find_first(SelectSeq(order, LAMBDA s : pda_symbol_matches(s, c)))

RECURSIVE pda_extend_in_order(_, _, _, _)
\* make_transition: one for loop over the table, its keys handed out in
\* `keys`, extending matching_transitions with the entries of the keys equal
\* to `wanted`
pda_extend_in_order(info, keys, wanted, matching_transitions) ==
    IF keys = <<>> THEN matching_transitions
    ELSE pda_extend_in_order(info, Tail(keys), wanted,
                             IF Head(keys) = wanted
                             THEN matching_transitions \o info.transitions[Head(keys)]
                             ELSE matching_transitions)

\* make_transition: the two loops filling matching_transitions, the table
\* handing its keys out in `keys`
pda_matching_in_order(info, keys, current_state, symbol, stack_top) ==
    LET specific == IF is_some(stack_top)
                    THEN pda_extend_in_order(
                             info, keys, PDATransitionFrom(current_state, symbol, stack_top),
                             <<>>)
                    ELSE <<>>
    IN  IF specific # <<>>
        THEN specific
        ELSE pda_extend_in_order(info, keys, PDATransitionFrom(current_state, symbol, None),
                                 <<>>)

\* can_make_epsilon_transition: the for loop returning true at the first key
\* that allows an epsilon transition, the keys handed out in `keys`
can_make_epsilon_in_order(keys, current_state, st) ==
    SelectSeq(keys, LAMBDA key : /\ key[1] = current_state /\ key[2] = EPSILON
                                 /\ (is_none(key[3]) \/ key[3] = pda_back(st))) # <<>>

\* the destinations the table holds under a key (at most one key is equal to it)
pda_get(info, key) ==
    IF key \in DOMAIN info.transitions THEN info.transitions[key] ELSE <<>>

\* Machine::can_make_epsilon_transition
can_make_epsilon_transition(info, current_state, st) ==
    \E key \in DOMAIN info.transitions :
        /\ key[1] = current_state /\ key[2] = EPSILON
        /\ (is_none(key[3]) \/ key[3] = pda_back(st))

\* mutant of pda_matching_transitions: the entry without a stack top comes first
pda_matching_wildcard_first(info, current_state, symbol, stack_top) ==
    LET wildcard == pda_get(info, PDATransitionFrom(current_state, symbol, None))
    IN  IF wildcard # <<>> \/ is_none(stack_top)
        THEN wildcard
        ELSE pda_get(info, PDATransitionFrom(current_state, symbol, stack_top))

\* make_transition: the two loops filling matching_transitions
pda_matching_transitions(info, current_state, symbol, stack_top) ==
    LET specific == IF is_some(stack_top)
                    THEN pda_get(info, PDATransitionFrom(current_state, symbol, stack_top))
                    ELSE <<>>
    IN  IF specific # <<>>
        THEN specific
        ELSE pda_get(info, PDATransitionFrom(current_state, symbol, None))

\* mutant of pda_stack_action: Pop restores the start of the stack when it is empty
pda_stack_action_refill(st, stack_action) ==
    IF stack_action.tag = "Push" THEN Append(st, stack_action.sym)
    ELSE IF stack_action.tag = "Pop"
    THEN IF st # <<>> THEN SubSeq(st, 1, Len(st) - 1) ELSE <<SymZ>>
    ELSE st

\* make_transition: the match on transition.stack_action
pda_stack_action(st, stack_action) ==
    IF stack_action.tag = "Push" THEN Append(st, stack_action.sym)
    ELSE IF stack_action.tag = "Pop"
    THEN IF st # <<>> THEN SubSeq(st, 1, Len(st) - 1) ELSE st
    ELSE st

\* Machine::make_transition: whether it fired, and the state and stack it leaves
make_transition(info, current_state, st, symbol, stack_top) ==
    LET matching_transitions ==
            pda_matching_transitions(info, current_state, symbol, stack_top)
    IN  IF matching_transitions = <<>>
        THEN [fired |-> FALSE, state |-> current_state, stack |-> st, taken |-> None]
        ELSE LET transition == matching_transitions[1] IN
             [fired |-> TRUE, state |-> transition.state,
              stack |-> pda_stack_action(st, transition.stack_action),
              taken |-> Some(transition)]

\* one call self.make_transition(symbol, self.stack.back().copied()), with the
\* bookkeeping of the call: its symbol and the configuration it was made in
Call(symbol) ==
    LET r == make_transition(TheInfo, current, stack, symbol, pda_back(stack)) IN
    /\ Len(r.stack) <= MaxStack
    /\ current' = r.state
    /\ stack' = r.stack
    /\ last' = Some([symbol |-> symbol, state |-> current, stack |-> stack,
                     fired |-> r.fired, taken |-> r.taken])

\* the result of the call Call(symbol) makes
Fired(symbol) ==
    make_transition(TheInfo, current, stack, symbol, pda_back(stack)).fired

\* mutant of pda_epsilon_first: input symbols are tried without the epsilon loop
pda_epsilon_first_never(symbol) == FALSE

\* run: the guard of the inner loop of epsilon transitions
pda_epsilon_first(symbol) == symbol # EPSILON

\* run: current_symbol
pda_current_symbol(info, inp, pos) ==
    IF pos < Len(inp) THEN pda_find_symbol(info, inp[pos + 1]) ELSE Some(EPSILON)

\* mutant of pda_is_accepted: an empty stack is required as well
pda_is_accepted_empty_stack(info, current_state, st) ==
    current_state \in info.final_states /\ st = <<>>

\* run: is_accepted
pda_is_accepted(info, current_state, st) == current_state \in info.final_states

\* Machine::new
PdaNew ==
    /\ pc = "new" /\ kind = "pda"
    /\ current' = TheInfo.start_state
    /\ stack' = IF is_some(TheInfo.start_stack_symbol)
                THEN <<unwrap(TheInfo.start_stack_symbol)>>
                ELSE <<>>
    /\ pc' = "before"
    /\ UNCHANGED <<src, lexed, parsed, kind, machine, outcome, input, position, tape, head, made_transition, result, last>>

\* run: one test of the first loop of epsilon transitions
PdaEpsilonBefore ==
    /\ pc = "before" /\ kind = "pda"
    /\ Call(EPSILON)
    /\ pc' = IF Fired(EPSILON) THEN "before" ELSE "loop"
    /\ UNCHANGED <<src, lexed, parsed, kind, machine, outcome, input, position, tape, head, made_transition, result>>

\* run: the test of the main loop and the choice of current_symbol
PdaLoopHead ==
    /\ pc = "loop" /\ kind = "pda"
    /\ LET current_symbol == pda_current_symbol(TheInfo, input, position) IN
       IF ~(position < Len(input) \/ can_make_epsilon_transition(TheInfo, current, stack))
       THEN /\ pc' = "return"
            /\ UNCHANGED <<made_transition, result>>
       ELSE IF is_none(current_symbol)
       THEN /\ pc' = "done"
            /\ result' = Some(FALSE)
            /\ UNCHANGED made_transition
       ELSE /\ made_transition' = FALSE
            /\ pc' = IF pda_epsilon_first(unwrap(current_symbol)) THEN "epsilon" ELSE "symbol"
            /\ UNCHANGED result
    /\ UNCHANGED <<src, lexed, parsed, kind, machine, outcome, input, position, current, stack, tape, head, last>>

\* run: one test of the inner loop of epsilon transitions
PdaEpsilonFirst ==
    /\ pc = "epsilon" /\ kind = "pda"
    /\ Call(EPSILON)
    /\ IF Fired(EPSILON)
       THEN made_transition' = TRUE /\ pc' = "epsilon"
       ELSE UNCHANGED made_transition /\ pc' = "symbol"
    /\ UNCHANGED <<src, lexed, parsed, kind, machine, outcome, input, position, tape, head, result>>

\* run: the transition on current_symbol and the rest of the loop body
PdaSymbol ==
    /\ pc = "symbol" /\ kind = "pda"
    /\ LET symbol == unwrap(pda_current_symbol(TheInfo, input, position))
           made   == made_transition \/ Fired(symbol)
       IN  /\ Call(symbol)
           /\ made_transition' = made
           /\ position' = IF Fired(symbol) /\ position < Len(input) /\ symbol # EPSILON
                          THEN position + 1
                          ELSE position
           /\ IF made
              THEN pc' = "loop" /\ UNCHANGED result
              ELSE IF symbol = EPSILON /\ position >= Len(input)
              THEN pc' = "return" /\ UNCHANGED result
              ELSE pc' = "done" /\ result' = Some(FALSE)
    /\ UNCHANGED <<src, lexed, parsed, kind, machine, outcome, input, tape, head>>

\* run: the value returned after the main loop
PdaReturn ==
    /\ pc = "return" /\ kind = "pda"
    /\ result' = Some(pda_is_accepted(TheInfo, current, stack))
    /\ pc' = "done"
    /\ UNCHANGED <<src, lexed, parsed, kind, machine, outcome, input, position, current, stack, tape, head, made_transition, last>>

-----------------------------------------------------------------------------
(* machine/tm.rs: Tape and Machine *)

\* the longest tape the model follows; a step that would exceed it is not taken
MaxTape == 4

\* a Tape value: the Vec and the position (the blank symbol is passed along)
TapeOf(cells, pos) == [tape |-> cells, position |-> pos]

\* Tape::new
tape_new(blank_symbol) == TapeOf(<<blank_symbol>>, 0)

\* Tape::get_current_symbol
get_current_symbol(t, blank_symbol) ==
    IF t.position < Len(t.tape) THEN t.tape[t.position + 1] ELSE blank_symbol

\* Vec::resize to a longer length, filling with the blank symbol
resize(cells, new_len, blank_symbol) ==
    [i \in 1..new_len |-> IF i <= Len(cells) THEN cells[i] ELSE blank_symbol]

\* Tape::write_symbol
write_symbol(t, blank_symbol, symbol) ==
    LET cells == IF t.position >= Len(t.tape)
                 THEN resize(t.tape, t.position + 1, blank_symbol)
                 ELSE t.tape
    IN  TapeOf([cells EXCEPT ![t.position + 1] = symbol], t.position)

\* mutant of move_left: at position 0 nothing is inserted
move_left_stays(t, blank_symbol) ==
    IF t.position > 0 THEN TapeOf(t.tape, t.position - 1) ELSE t

\* mutant of move_left: at position 0 the blank is added at the back
move_left_appends(t, blank_symbol) ==
    IF t.position > 0
    THEN TapeOf(t.tape, t.position - 1)
    ELSE TapeOf(Append(t.tape, blank_symbol), t.position)

\* Tape::move_left
move_left(t, blank_symbol) ==
    IF t.position > 0
    THEN TapeOf(t.tape, t.position - 1)
    ELSE TapeOf(<<blank_symbol>> \o t.tape, t.position)

\* mutant of move_right: the tape is not extended under the cursor
move_right_never_grows(t, blank_symbol) == TapeOf(t.tape, t.position + 1)

\* Tape::move_right
move_right(t, blank_symbol) ==
    IF t.position + 1 >= Len(t.tape)
    THEN TapeOf(Append(t.tape, blank_symbol), t.position + 1)
    ELSE TapeOf(t.tape, t.position + 1)

\* run: the string made of one input character
input_symbol(c) == <<c>>

\* info.transitions.get(&transition_key)
tm_get(info, key) ==
    IF key \in DOMAIN info.transitions THEN Some(info.transitions[key]) ELSE None

\* the tape of the run as a Tape value
TheTape == TapeOf(tape, head)

\* Machine::new and the start of run: the tape is created
TmNew ==
    /\ pc = "new" /\ kind = "tm"
    /\ tape' = tape_new(TheInfo.blank_symbol).tape
    /\ head' = tape_new(TheInfo.blank_symbol).position
    /\ pc' = "write"
    /\ UNCHANGED <<src, lexed, parsed, kind, machine, outcome, input, position, current, stack, made_transition, result, last>>

\* run: one iteration of the loop writing the input on the tape
TmWriteInput ==
    /\ pc = "write" /\ kind = "tm"
    /\ position < Len(input)
    /\ LET blank   == TheInfo.blank_symbol
           written == write_symbol(TheTape, blank, input_symbol(input[position + 1]))
           moved   == move_right(written, blank)
       IN  tape' = moved.tape /\ head' = moved.position
    /\ position' = position + 1
    /\ UNCHANGED <<src, lexed, parsed, kind, pc, machine, outcome, input, current, stack, made_transition, result, last>>

\* run: one iteration of the loop moving back to the beginning
TmRewind ==
    /\ pc = "write" /\ kind = "tm"
    /\ position = Len(input)
    /\ head > 0
    /\ LET moved == move_left(TheTape, TheInfo.blank_symbol)
       IN  tape' = moved.tape /\ head' = moved.position
    /\ UNCHANGED <<src, lexed, parsed, kind, pc, machine, outcome, input, position, current, stack, made_transition, result, last>>

\* run: current_state is set to the start state
TmStart ==
    /\ pc = "write" /\ kind = "tm"
    /\ position = Len(input)
    /\ ~(head > 0)
    /\ current' = TheInfo.start_state
    /\ pc' = "run"
    /\ UNCHANGED <<src, lexed, parsed, kind, machine, outcome, input, position, stack, tape, head, made_transition, result, last>>

\* the most iterations of the loop of run the model follows
MaxSteps == 6

\* the iterations of the loop made so far
TmSteps == IF is_some(last) THEN unwrap(last).steps ELSE 0

\* mutant of tm_loop_continues: the loop gives up after three iterations
tm_loop_gives_up(steps) == steps < 3

\* run: `loop` has no condition on the number of iterations made
tm_loop_continues(steps) == TRUE

\* mutant of tm_without_transition: a final state accepts where the run stops
tm_without_transition_accepts(info, current_state) == current_state \in info.final_states

\* run: without a transition for the key the loop is left and false returned,
\* whatever the state
tm_without_transition(info, current_state) == FALSE

\* run: one iteration of the loop
TmStep ==
    /\ pc = "run" /\ kind = "tm"
    /\ LET blank          == TheInfo.blank_symbol
           current_symbol == get_current_symbol(TheTape, blank)
           transition_key == TMTransitionFrom(current, current_symbol)
           found          == tm_get(TheInfo, transition_key)
       IN  IF ~tm_loop_continues(TmSteps)
           THEN /\ result' = Some(FALSE)
                /\ pc' = "done"
                /\ UNCHANGED <<tape, head, current, last>>
           ELSE IF is_some(found)
           THEN LET transition == unwrap(found)
                    written    == write_symbol(TheTape, blank, transition.write_symbol)
                    moved      == IF transition.direction = Left
                                  THEN move_left(written, blank)
                                  ELSE move_right(written, blank)
                IN  /\ Len(moved.tape) <= MaxTape /\ TmSteps < MaxSteps
                    /\ tape' = moved.tape /\ head' = moved.position
                    /\ current' = transition.state
                    /\ last' = Some([state |-> current, symbol |-> current_symbol,
                                     tape |-> tape, head |-> head, steps |-> TmSteps + 1])
                    /\ IF transition.state \in TheInfo.final_states
                       THEN result' = Some(TRUE) /\ pc' = "done"
                       ELSE UNCHANGED <<result, pc>>
           ELSE /\ result' = Some(tm_without_transition(TheInfo, current))
                /\ pc' = "done"
                /\ UNCHANGED <<tape, head, current, last>>
    /\ UNCHANGED <<src, lexed, parsed, kind, machine, outcome, input, position, stack, made_transition>>

-----------------------------------------------------------------------------
(* machine/tm.rs: Tape on its own.  `last` keeps the logical tape: what was *)
(* last written to each cell, the cells being numbered from the cell the    *)
(* tape was created on, and the number of the cell under the cursor         *)

\* the logical tape after a write of symbol under the cursor
LogicalWrite(l, symbol) == [l EXCEPT !.written = (l.cursor :> symbol) @@ l.written]

\* the logical tape after a move of the cursor by d cells
LogicalMove(l, d) == [l EXCEPT !.cursor = l.cursor + d]

\* tape.write_symbol(symbol) for any tape symbol
TapeWrite ==
    /\ pc = "tape" /\ kind = "tape"
    /\ \E symbol \in Range(unwrap(machine.tape_alphabet)) :
           /\ tape' = write_symbol(TheTape, unwrap(machine.blank_symbol), symbol).tape
           /\ head' = write_symbol(TheTape, unwrap(machine.blank_symbol), symbol).position
           /\ last' = Some(LogicalWrite(unwrap(last), symbol))
    /\ UNCHANGED <<src, lexed, parsed, kind, pc, machine, outcome, input, position, current, stack, made_transition, result>>

\* tape.move_left()
TapeMoveLeft ==
    /\ pc = "tape" /\ kind = "tape"
    /\ LET moved == move_left(TheTape, unwrap(machine.blank_symbol)) IN
       /\ Len(moved.tape) <= MaxTape
       /\ tape' = moved.tape /\ head' = moved.position
    /\ last' = Some(LogicalMove(unwrap(last), -1))
    /\ UNCHANGED <<src, lexed, parsed, kind, pc, machine, outcome, input, position, current, stack, made_transition, result>>

\* tape.move_right()
TapeMoveRight ==
    /\ pc = "tape" /\ kind = "tape"
    /\ LET moved == move_right(TheTape, unwrap(machine.blank_symbol)) IN
       /\ Len(moved.tape) <= MaxTape
       /\ tape' = moved.tape /\ head' = moved.position
    /\ last' = Some(LogicalMove(unwrap(last), 1))
    /\ UNCHANGED <<src, lexed, parsed, kind, pc, machine, outcome, input, position, current, stack, made_transition, result>>

-----------------------------------------------------------------------------
(* compute_epsilon_closure on its own *)

\* compute_epsilon_closure applied to a set of declared states, in any order
NfaClosureApply ==
    /\ pc = "new" /\ kind = "nfa"
    /\ \E S \in SUBSET Range(machine.states) : \E order \in Orders(S) :
           /\ last' = Some(S)
           /\ current' = compute_epsilon_closure(TheInfo, S, order)
    /\ pc' = "closed"
    /\ UNCHANGED <<src, lexed, parsed, kind, machine, outcome, input, position, stack, tape, head, made_transition, result>>

-----------------------------------------------------------------------------
(* Bounds of the model and the descriptions the specifications draw *)

\* the longest transitions list of a description drawn for validation
MaxTrans == 3

StateNames == {"q0", "q1"}

RECURSIVE SetToSeq(_)
\* a list holding the elements of S once each
SetToSeq(S) ==
    IF S = {} THEN <<>>
    ELSE LET x == CHOOSE y \in S : TRUE IN <<x>> \o SetToSeq(S \ {x})

\* the plain transitions q(x) => (p) over the given states and symbols
PlainTransitions(Q, X) == {Plain(q, x, p) : q \in Q, x \in X, p \in Q}

\* the same transitions, each carrying stack action op and direction dir
Decorated(T, op, dir) == {[t EXCEPT !.to.op = op, !.to.dir = dir] : t \in T}

\* the state before validation, for kind k, description m and input string inp
StartWith(k, m, inp) ==
    /\ src = <<>>
    /\ lexed = None
    /\ parsed = None
    /\ kind = k
    /\ machine = m
    /\ pc = "validate"
    /\ outcome = None
    /\ input = inp
    /\ position = 0
    /\ current = None
    /\ stack = <<>>
    /\ tape = <<>>
    /\ head = 0
    /\ made_transition = FALSE
    /\ result = None
    /\ last = None

\* descriptions with every list drawn freely: declared sets, references and
\* transition lists vary independently, so that references may be undeclared,
\* keys repeated and pairs missing
FreeStart(k, declStates, declAlphabets, transUniverse, sa, ss, ta, bs) ==
    \E S \in declStates, A \in declAlphabets, n \in 0..MaxTrans :
        \E trs \in [1..n -> transUniverse], st \in StateNames,
           F \in NonEmptySubsets(StateNames) :
            StartWith(k, PartialMachineInfo(SetToSeq(S), SetToSeq(A), trs, st, SetToSeq(F),
                                            sa, ss, ta, bs), <<>>)

DfaFreeStart ==
    FreeStart("dfa", {{"q0"}, {"q0", "q1"}}, {{SymA}, {SymA, SymB}},
              PlainTransitions(StateNames, {SymA, SymB}), None, None, None, None)

NfaFreeStart ==
    FreeStart("nfa", {{"q0"}, {"q0", "q1"}}, {{SymA}, {SymB}},
              PlainTransitions(StateNames, {SymA, EPSILON}), None, None, None, None)

PdaFreeStart ==
    FreeStart("pda", {{"q0"}, {"q0", "q1"}}, {{SymA}, {SymB}},
              Decorated(PlainTransitions(StateNames, {SymA, EPSILON}), Some(NoOp), None),
              Some(<<SymZ>>), None, None, None)

TmFreeStart ==
    \E TA \in {{SymA}, {SymA, SymB}} :
        FreeStart("tm", {{"q0"}, {"q0", "q1"}}, {{SymA}},
                  Decorated(PlainTransitions(StateNames, {SymB, EPSILON}),
                            Some(Write(SymA)), Some(Right)),
                  None, None, Some(SetToSeq(TA)), Some(SymA))

\* the most transitions of a dfa description drawn with stack and tape elements
MaxMixedTrans == 2

\* transitions from q0 on a with every combination of a stack top, a stack or
\* tape action and a direction
MixedTransitions ==
    {TransitionInfo("q0", SymA, top, p, op, dir) :
        top \in {None, Some(SymZ)}, p \in {"q0", "q1"},
        op \in {None, Some(Push(SymZ)), Some(Pop), Some(NoOp), Some(Write(Sym1))},
        dir \in {None, Some(Left), Some(Right)}}

\* descriptions handed to the validator of kind k that may have the sections
\* and the transition elements of the other kinds: any of the four optional
\* sections with at most one transition, or no optional section and a list of
\* transitions
MixedStart(k) ==
    \/ \E sa \in {None, Some(<<SymZ>>)}, ss \in {None, Some(SymZ)},
          ta \in {None, Some(<<Sym1, SymBlank>>)}, bs \in {None, Some(SymBlank)},
          trs \in SeqsUpTo(MixedTransitions, 1), S \in {{"q0"}, {"q0", "q1"}},
          F \in {{"q0"}, {"q1"}} :
           StartWith(k, PartialMachineInfo(SetToSeq(S), <<SymA>>, trs, "q0", SetToSeq(F),
                                           sa, ss, ta, bs), <<>>)
    \/ \E trs \in SeqsUpTo(MixedTransitions, MaxMixedTrans), S \in {{"q0"}, {"q0", "q1"}} :
           StartWith(k, PartialMachineInfo(SetToSeq(S), <<SymA>>, trs, "q0", <<"q0">>,
                                           None, None, None, None), <<>>)

DfaMixedStart == MixedStart("dfa")

\* transitions from q0 on a with every combination of a stack top, a stack
\* action or none, and a direction or none
PdaMixedTransitions ==
    {TransitionInfo("q0", SymA, top, p, op, dir) :
        top \in {None, Some(SymZ)}, p \in {"q0", "q1"},
        op \in {None, Some(Push(SymZ)), Some(Pop), Some(NoOp)},
        dir \in {None, Some(Left), Some(Right)}}

\* descriptions handed to the pda validator: any of the four optional sections,
\* the start_stack symbol declared or not, with at most one transition; or a
\* stack alphabet, no tape section and a list of transitions
PdaMixedStart ==
    \/ \E sa \in {None, Some(<<SymZ>>)}, ss \in {None, Some(SymZ), Some(Sym1)},
          ta \in {None, Some(<<Sym1, SymBlank>>)}, bs \in {None, Some(SymBlank), Some(SymA)},
          trs \in SeqsUpTo(PdaMixedTransitions, 1), S \in {{"q0"}, {"q0", "q1"}} :
           StartWith("pda", PartialMachineInfo(SetToSeq(S), <<SymA>>, trs, "q0", <<"q0">>,
                                               sa, ss, ta, bs), <<>>)
    \/ \E trs \in SeqsUpTo(PdaMixedTransitions, MaxMixedTrans),
          ss \in {None, Some(SymZ)}, S \in {{"q0"}, {"q0", "q1"}} :
           StartWith("pda", PartialMachineInfo(SetToSeq(S), <<SymA>>, trs, "q0", <<"q0">>,
                                               Some(<<SymZ>>), ss, None, None), <<>>)

NfaMixedStart == MixedStart("nfa")

\* every operation or none, and every direction or none
AnyOps ==
    {None, Some(Push(SymZ)), Some(Pop), Some(NoOp),
     Some(Write(Sym1)), Some(Write(SymBlank)), Some(Write(SymA))}

AnyDirs == {None, Some(Left), Some(Right)}

\* transitions from q0 reading a symbol of X under a stack top of Tops
TmMixedTransitions(X, Tops) ==
    {TransitionInfo("q0", x, top, p, op, dir) :
        x \in X, top \in Tops, p \in {"q0", "q1"}, op \in AnyOps, dir \in AnyDirs}

\* descriptions handed to the tm validator: any of the four optional sections,
\* the blank symbol declared or not, with at most one transition; or the two
\* tape sections, no stack section and a list of transitions reading 1
TmMixedStart ==
    \/ \E sa \in {None, Some(<<SymZ>>)}, ss \in {None, Some(SymZ)},
          ta \in {None, Some(<<Sym1, SymBlank>>)}, bs \in {None, Some(SymBlank), Some(SymA)},
          trs \in SeqsUpTo(TmMixedTransitions({Sym1, SymA}, {None, Some(SymZ)}), 1),
          S \in {{"q0"}, {"q0", "q1"}} :
           StartWith("tm", PartialMachineInfo(SetToSeq(S), <<Sym1>>, trs, "q0", <<"q0">>,
                                              sa, ss, ta, bs), <<>>)
    \/ \E trs \in SeqsUpTo(TmMixedTransitions({Sym1}, {None}), MaxMixedTrans),
          S \in {{"q0"}, {"q0", "q1"}} :
           StartWith("tm", PartialMachineInfo(SetToSeq(S), <<Sym1>>, trs, "q0", <<"q0">>,
                                              None, None, Some(<<Sym1, SymBlank>>),
                                              Some(SymBlank)), <<>>)

-----------------------------------------------------------------------------
(* main.rs handle_cli: the lexing stage *)

\* `let lexed = parser::Parser::lex(src)?`: an Err ends handle_cli, an Ok goes
\* on to parse, a panic ends the process
Lex ==
    /\ pc = "lex"
    /\ lexed' = Some(lex(src))
    /\ pc' = IF lex(src).ok THEN "parse"
             ELSE IF is_aborted(lex(src)) THEN "abort" ELSE "error"
    /\ UNCHANGED <<src, parsed, kind, machine, outcome, runVars>>

\* the state before lexing the source text s, for kind k and input string inp
StartAt(s, k, inp) ==
    /\ src = s
    /\ lexed = None
    /\ parsed = None
    /\ kind = k
    /\ machine = None
    /\ pc = "lex"
    /\ outcome = None
    /\ input = inp
    /\ position = 0
    /\ current = None
    /\ stack = <<>>
    /\ tape = <<>>
    /\ head = 0
    /\ made_transition = FALSE
    /\ result = None

\* the description as the validators read it: every token replaced by its
\* text in the source
token_texts(info, text) ==
    LET of(token) == token_src(token, text)
        list(tokens) == [k \in DOMAIN tokens |-> of(tokens[k])]
        opt(o) == IF is_some(o) THEN Some(of(unwrap(o))) ELSE None
        optlist(o) == IF is_some(o) THEN Some(list(unwrap(o))) ELSE None
        op(o) == IF is_some(o) /\ unwrap(o).tag \in {"Push", "Write"}
                 THEN Some([unwrap(o) EXCEPT !.sym = of(unwrap(o).sym)])
                 ELSE o
        transition(t) ==
            TransitionInfo(of(t.from.initial), of(t.from.with_symbol),
                           opt(t.from.with_stack_symbol), of(t.to.state), op(t.to.op), t.to.dir)
    IN  PartialMachineInfo(list(info.states), list(info.alphabet),
                           [k \in DOMAIN info.transitions |-> transition(info.transitions[k])],
                           of(info.start_state), list(info.final_states),
                           optlist(info.stack_alphabet), opt(info.start_stack),
                           optlist(info.tape_alphabet), opt(info.blank_symbol))

\* `let parsed = parser::Parser::parse(src, lexed)?`: an Err ends handle_cli,
\* an Ok hands the description to the validator, a panic ends the process
Parse ==
    /\ pc = "parse"
    /\ \E r \in {parse(src, unwrap(unwrap(lexed).info))} :
           /\ parsed' = Some(r)
           /\ machine' = IF r.res.ok THEN token_texts(unwrap(r.res.info), src) ELSE machine
           /\ pc' = IF r.res.ok THEN "validate"
                    ELSE IF is_aborted(r.res) THEN "abort" ELSE "error"
    /\ UNCHANGED <<src, lexed, kind, outcome, runVars>>

RECURSIVE Join(_)
\* the texts of a list, each followed by a space
Join(texts) == IF texts = <<>> THEN <<>> ELSE Head(texts) \o <<" ">> \o Join(Tail(texts))

\* the longest source text handed to the lexer on its own
MaxSrc == 3

\* the characters of those texts: one of each class the lexer tells apart
LexChars == {"=", ">", "[", "a", "eacute", " ", "#", "\n"}

LexStart == \E s \in SeqsUpTo(LexChars, MaxSrc) : StartAt(s, "dfa", <<>>) /\ last = None

\* the lexer on its own
SpecLex == LexStart /\ [][Lex]_vars

-----------------------------------------------------------------------------
(* main.rs handle_cli: the validation stage, one action per kind *)

\* the `?` after Info::new: an Err ends handle_cli, an Ok goes on to Machine::new
Validated(o) ==
    /\ outcome' = Some(o)
    /\ pc' = IF o.ok THEN "new" ELSE "error"
    /\ UNCHANGED <<src, lexed, parsed, kind, machine, runVars>>

ValidateDfa ==
    /\ pc = "validate" /\ kind = "dfa"
    /\ \E o \in dfa_Info_new(machine) : Validated(o)

ValidateNfa ==
    /\ pc = "validate" /\ kind = "nfa"
    /\ \E o \in nfa_Info_new(machine) : Validated(o)

ValidatePda ==
    /\ pc = "validate" /\ kind = "pda"
    /\ \E o \in pda_Info_new(machine) : Validated(o)

ValidateTm ==
    /\ pc = "validate" /\ kind = "tm"
    /\ \E o \in tm_Info_new(machine) : Validated(o)

InitValidate == DfaFreeStart \/ NfaFreeStart \/ PdaFreeStart \/ TmFreeStart

NextValidate == ValidateDfa \/ ValidateNfa \/ ValidatePda \/ ValidateTm

\* every kind's validator over freely drawn descriptions
SpecValidate == InitValidate /\ [][NextValidate]_vars

\* the dfa validator over descriptions with stack and tape elements
SpecDfaMixed == DfaMixedStart /\ [][ValidateDfa]_vars

\* the pda validator and Machine::new over descriptions with missing stack
\* elements and with tape elements
SpecPdaMixed == PdaMixedStart /\ [][ValidatePda \/ PdaNew]_vars

\* the tm validator over descriptions with missing tape elements and with
\* stack elements
SpecTmMixed == TmMixedStart /\ [][ValidateTm]_vars

\* the nfa validator over the same descriptions
SpecNfaMixed == NfaMixedStart /\ [][ValidateNfa]_vars

-----------------------------------------------------------------------------
(* The parser on the tokens of any source: the start of a description followed
   by any few lexemes *)

\* the lexemes of a description that uses every form the grammar has
Canonical ==
    <<<<"[">>, <<"i", "n", "i", "t", "i", "a", "l">>, <<"]">>, <<"q">>, <<"[">>,
      <<"s", "t", "a", "t", "e", "s">>, <<"]">>, <<"q">>, <<",">>, <<"p">>, <<"[">>,
      <<"t", "r", "a", "n", "s", "i", "t", "i", "o", "n", "s">>, <<"]">>, <<"q">>, <<"(">>,
      <<"a">>, <<",">>, <<"Z">>, <<")">>, <<"=", ">">>, <<"(">>, <<"p">>, <<",">>,
      <<"P", "U", "S", "H">>, <<":">>, <<"Z">>, <<",">>, <<"L", "E", "F", "T">>, <<")">>,
      <<"p">>, <<"(">>, <<"a">>, <<")">>, <<"=", ">">>, <<"(">>, <<"q">>, <<",">>,
      <<"N", "O", "O", "P">>, <<")">>>>

\* one lexeme of every token kind, and a section name
Lexemes ==
    {<<"[">>, <<"]">>, <<"(">>, <<")">>, <<",">>,
     <<":">>, <<"=", ">">>, <<"x">>, <<"f", "i", "n", "a", "l">>, <<"P", "U", "S", "H">>,
     <<"P", "O", "P">>, <<"N", "O", "O", "P">>, <<"W", "R", "I", "T", "E">>, <<"L", "E", "F", "T">>, <<"R", "I", "G", "H", "T">>}

\* the most lexemes that follow the start of the description
MaxJunk == 1

ParseAnyStart ==
    \E n \in 0..Len(Canonical) : \E junk \in SeqsUpTo(Lexemes, MaxJunk) :
        /\ StartAt(Join(SubSeq(Canonical, 1, n) \o junk), "dfa", <<>>)
        /\ last = None

NextParse == Lex \/ Parse

SpecParseAny == ParseAnyStart /\ [][NextParse]_vars

-----------------------------------------------------------------------------
(* The parser on descriptions put together from whole sections *)

\* the text of a section
SectionText(item) ==
    CASE item = "states" ->
            <<"[", "s", "t", "a", "t", "e", "s", "]", " ", "q", "0", ",", " ", "q", "1",
              "\n">>
      [] item = "alphabet" ->
            <<"[", "a", "l", "p", "h", "a", "b", "e", "t", "]", " ", "a", "\n">>
      [] item = "transitions" ->
            <<"[", "t", "r", "a", "n", "s", "i", "t", "i", "o", "n", "s", "]", "\n", "q",
              "0", " ", "(", "a", ")", " ", "=", ">", " ", "(", "q", "1", ")", "\n", "q",
              "1", " ", "(", "a", ")", " ", "=", ">", " ", "(", "q", "1", ")", "\n">>
      [] item = "initial" ->
            <<"[", "i", "n", "i", "t", "i", "a", "l", "]", " ", "q", "0", "\n">>
      [] item = "final" ->
            <<"[", "f", "i", "n", "a", "l", "]", " ", "q", "1", "\n">>
      [] item = "stack_alphabet" ->
            <<"[", "s", "t", "a", "c", "k", "_", "a", "l", "p", "h", "a", "b", "e", "t",
              "]", " ", "Z", "\n">>
      [] item = "blank_symbol" ->
            <<"[", "b", "l", "a", "n", "k", "_", "s", "y", "m", "b", "o", "l", "]", " ",
              "B", "\n">>
      [] item = "states again" ->
            <<"[", "s", "t", "a", "t", "e", "s", "]", " ", "q", "1", "\n">>
      [] item = "initial again" ->
            <<"[", "i", "n", "i", "t", "i", "a", "l", "]", " ", "q", "1", "\n">>
      [] item = "bogus" ->
            <<"[", "b", "o", "g", "u", "s", "]", " ", "x", "\n">>
      [] item = "literal dfa" ->
            <<"[", "t", "r", "a", "n", "s", "i", "t", "i", "o", "n", "s", "]", " ", "q",
              "0", "(", "a", ")", " ", "=", ">", " ", "q", "1", "\n">>
      [] item = "literal pda" ->
            <<"[", "t", "r", "a", "n", "s", "i", "t", "i", "o", "n", "s", "]", " ", "q",
              "0", "(", "a", ",", "Z", ")", " ", "=", ">", " ", "q", "1", "(", "P", "U",
              "S", "H", ":", "A", ")", "\n">>
      [] item = "literal tm" ->
            <<"[", "t", "r", "a", "n", "s", "i", "t", "i", "o", "n", "s", "]", " ", "q",
              "0", "(", "0", ")", " ", "=", ">", " ", "q", "1", "(", "W", "R", "I", "T",
              "E", ":", "1", ",", " ", "R", "I", "G", "H", "T", ")", "\n">>
      [] item = "parenthesised dfa" ->
            <<"[", "t", "r", "a", "n", "s", "i", "t", "i", "o", "n", "s", "]", " ", "q",
              "0", "(", "a", ")", " ", "=", ">", " ", "(", "q", "1", ")", "\n">>
      [] item = "parenthesised pda" ->
            <<"[", "t", "r", "a", "n", "s", "i", "t", "i", "o", "n", "s", "]", " ", "q",
              "0", "(", "a", ",", "Z", ")", " ", "=", ">", " ", "(", "q", "1", ",", " ",
              "P", "U", "S", "H", ":", "A", ")", "\n">>
      [] item = "parenthesised tm" ->
            <<"[", "t", "r", "a", "n", "s", "i", "t", "i", "o", "n", "s", "]", " ", "q",
              "0", "(", "0", ")", " ", "=", ">", " ", "(", "q", "1", ",", " ", "W", "R",
              "I", "T", "E", ":", "1", ",", " ", "R", "I", "G", "H", "T", ")", "\n">>
      [] item = "tape_alphabet" ->
            <<"[", "t", "a", "p", "e", "_", "a", "l", "p", "h", "a", "b", "e", "t", "]",
              " ", "a", ",", " ", "B", "\n">>
      [] item = "pda transitions" ->
            <<"[", "t", "r", "a", "n", "s", "i", "t", "i", "o", "n", "s", "]", "\n", "q",
              "0", " ", "(", "a", ")", " ", "=", ">", " ", "(", "q", "1", ",", " ", "P",
              "U", "S", "H", ":", "Z", ")", "\n", "q", "1", " ", "(", "a", ",", " ", "Z",
              ")", " ", "=", ">", " ", "(", "q", "1", ",", " ", "P", "O", "P", ")", "\n">>
      [] item = "tm transitions" ->
            <<"[", "t", "r", "a", "n", "s", "i", "t", "i", "o", "n", "s", "]", "\n", "q",
              "0", " ", "(", "a", ")", " ", "=", ">", " ", "(", "q", "0", ",", " ", "W",
              "R", "I", "T", "E", ":", "a", ",", " ", "R", "I", "G", "H", "T", ")", "\n",
              "q", "0", " ", "(", "B", ")", " ", "=", ">", " ", "(", "q", "1", ",", " ",
              "W", "R", "I", "T", "E", ":", "B", ",", " ", "L", "E", "F", "T", ")", "\n">>
      [] item = "truncated transitions" ->
            <<"[", "t", "r", "a", "n", "s", "i", "t", "i", "o", "n", "s", "]", "\n", "q",
              "0", " ", "(", "a", ")", " ", "=", ">", " ", "(", "q", "1", ")", "\n", "q",
              "1", " ", "(", "a", ")", " ", "=", ">", " ", "(", " ", "[", "\n">>
      [] item = "stray equals" ->
            <<"[", "s", "t", "a", "t", "e", "s", "]", " ", "q", "0", " ", "=", "x", "\n">>

\* the five sections of a well-formed dfa description, transitions last
BaseOrder == <<"states", "alphabet", "initial", "final", "transitions">>

\* sections added to them: two optional ones, a second [states] and a second
\* [initial] with another body, and one with an unknown name
Extras == {"stack_alphabet", "blank_symbol", "states again", "initial again", "bogus"}

\* a [transitions] section holding one transition literal, written without
\* and with parentheses around the right-hand side
Literals == {"literal dfa", "literal pda", "literal tm"}

Parenthesised == {"parenthesised dfa", "parenthesised pda", "parenthesised tm"}

\* a [transitions] section whose second transition is cut off after `=> (` by
\* a `[`
Truncated == {"truncated transitions"}

\* the most sections added to a description
MaxExtra == 1

RECURSIVE Perms(_)
\* the lists holding the elements of S once each, in every order
Perms(S) == IF S = {} THEN {<<>>} ELSE UNION {{<<x>> \o p : p \in Perms(S \ {x})} : x \in S}

RECURSIVE WithExtras(_, _)
\* list s with up to n sections of Extras put in at any place
WithExtras(s, n) ==
    IF n = 0 THEN {s}
    ELSE {s} \cup UNION {WithExtras(SubSeq(s, 1, at) \o <<e>> \o SubSeq(s, at + 1, Len(s)), n - 1) :
                            at \in 0..Len(s), e \in Extras}

RECURSIVE JoinSections(_)
JoinSections(items) ==
    IF items = <<>> THEN <<>> ELSE SectionText(Head(items)) \o JoinSections(Tail(items))

\* every subset of the five sections in every order; every subset in the base
\* order with sections added; the other four sections and then a literal
SectionLists ==
    UNION {Perms(S) : S \in SUBSET Range(BaseOrder)}
    \cup UNION {WithExtras(SelectSeq(BaseOrder, LAMBDA x : x \in S), MaxExtra) :
                   S \in SUBSET Range(BaseOrder)}
    \cup {<<"states", "alphabet", "initial", "final", x>> : x \in Literals \cup Parenthesised}
    \cup {<<"states", "alphabet", "initial", "final", x>> : x \in Truncated}
    \cup {<<"states", "alphabet", "initial", x, "final">> : x \in Truncated}

\* the list of sections the source was put together from is kept in `last`
ParseSectionsStart ==
    \E items \in SectionLists :
        /\ StartAt(JoinSections(items), "dfa", <<>>)
        /\ last = Some(items)

SpecParseSections == ParseSectionsStart /\ [][NextParse]_vars

-----------------------------------------------------------------------------
(* The whole pipeline of handle_cli: lex, parse, validate, run *)

\* description files: a dfa (also an nfa), a pda, a tm, one with a stray `=`,
\* one that is a lone `=`, and one without its last sections
PipelineSources ==
    {JoinSections(BaseOrder),
     JoinSections(<<"states", "alphabet", "stack_alphabet", "initial", "final", "pda transitions">>),
     JoinSections(<<"states", "alphabet", "tape_alphabet", "blank_symbol", "initial", "final",
                    "tm transitions">>),
     JoinSections(<<"stray equals">>),
     <<"=">>,
     JoinSections(<<"states", "alphabet">>)}

PipelineStart ==
    \E s \in PipelineSources, k \in {"dfa", "nfa", "pda", "tm"},
       inp \in {<<>>, <<"a">>, <<"a", "a">>, <<"b">>} :
        StartAt(s, k, inp) /\ last = None

NextPipeline ==
    \/ Lex \/ Parse
    \/ NextValidate
    \/ DfaNew \/ DfaStep \/ DfaReturn
    \/ NfaNew \/ NfaStep \/ NfaReturn
    \/ PdaNew \/ PdaEpsilonBefore \/ PdaLoopHead \/ PdaEpsilonFirst \/ PdaSymbol \/ PdaReturn
    \/ TmNew \/ TmWriteInput \/ TmRewind \/ TmStart \/ TmStep

SpecPipeline == PipelineStart /\ [][NextPipeline]_vars

-----------------------------------------------------------------------------
(* The dfa pipeline: validation, Machine::new and run, over the complete automata *)

\* the longest input string
MaxInput == 2

\* the largest declared alphabet of an automaton that is run
MaxAlphabet == 2

\* the input strings over the characters X
Inputs(X) == SeqsUpTo(X, MaxInput)

\* the alphabets over the symbols X
Alphabets(X) == {A \in SUBSET X : Cardinality(A) \in 1..MaxAlphabet}

\* the description listing, pair by pair, the transitions of the function delta
TableDesc(S, A, delta, st, F) ==
    LET pairs == SetToSeq(S \X A) IN
    PartialMachineInfo(SetToSeq(S), SetToSeq(A),
                       [i \in DOMAIN pairs |->
                           Plain(pairs[i][1], pairs[i][2], delta[pairs[i]])],
                       st, SetToSeq(F), None, None, None, None)

\* every dfa description over the symbols a, b, e-acute and the two-character ab
\* that lists one transition per declared pair, with every input over a, b, e-acute
DfaRunStart ==
    \E S \in {{"q0"}, {"q0", "q1"}}, A \in Alphabets({SymA, SymB, SymE, SymAB}) :
        \E delta \in [S \X A -> S], st \in S, F \in NonEmptySubsets(S),
           inp \in Inputs({"a", "b", "eacute"}) :
            StartWith("dfa", TableDesc(S, A, delta, st, F), inp)

NextDfaRun == ValidateDfa \/ DfaNew \/ DfaStep \/ DfaReturn

SpecDfaRun == DfaRunStart /\ [][NextDfaRun]_vars

-----------------------------------------------------------------------------
(* The nfa pipeline, and compute_epsilon_closure on its own *)

\* the most transitions of an nfa that is run
MaxNfaTrans == 2

\* the most epsilon transitions of an nfa whose closures are computed
MaxEpsTrans == 3

NfaStates == {"p", "q", "r"}

\* the lists of at most n transitions drawn from U, each transition at most once
\* and in one order
ListsOf(U, n) ==
    LET all == SetToSeq(U) IN
    {[i \in DOMAIN idx |-> all[idx[i]]] :
        idx \in {f \in UNION {[1..k -> DOMAIN all] : k \in 0..n} :
                    \A i, j \in DOMAIN f : i < j => f[i] < f[j]}}

\* an nfa description over the states Q with the given transitions
NfaDesc(Q, A, trs, st, F) ==
    PartialMachineInfo(SetToSeq(Q), SetToSeq(A), trs, st, SetToSeq(F),
                       None, None, None, None)

\* the nfas over p, q, r with transitions on a and epsilon, started in p, with
\* inputs over a and the undeclared b; and the nfas over p, q with transitions on
\* the two-byte symbol e-acute, with inputs over e-acute and a
NfaRunStart ==
    \/ \E trs \in ListsOf(PlainTransitions(NfaStates, {SymA, EPSILON}), MaxNfaTrans),
          F \in NonEmptySubsets(NfaStates), inp \in Inputs({"a", "b"}) :
           StartWith("nfa", NfaDesc(NfaStates, {SymA}, trs, "p", F), inp)
    \/ \E trs \in ListsOf(PlainTransitions({"p", "q"}, {SymE}), MaxNfaTrans),
          F \in NonEmptySubsets({"p", "q"}), inp \in Inputs({"eacute", "a"}) :
           StartWith("nfa", NfaDesc({"p", "q"}, {SymE, SymA}, trs, "p", F), inp)

NextNfaRun == ValidateNfa \/ NfaNew \/ NfaStep \/ NfaReturn

SpecNfaRun == NfaRunStart /\ [][NextNfaRun]_vars

\* the nfas declaring p, q whose transitions on a and epsilon lead to p, q or
\* the undeclared r
NfaUndeclaredStart ==
    \E trs \in ListsOf({Plain(q, x, p) : q \in {"p", "q"}, x \in {SymA, EPSILON},
                                          p \in {"p", "q", "r"}},
                        MaxNfaTrans),
       F \in NonEmptySubsets({"p", "q"}), inp \in Inputs({"a"}) :
        StartWith("nfa", NfaDesc({"p", "q"}, {SymA}, trs, "p", F), inp)

\* the runs of both families of nfas
NfaStatesStart == NfaRunStart \/ NfaUndeclaredStart

SpecNfaStates == NfaStatesStart /\ [][NextNfaRun]_vars

\* the dfas declaring q0, q1 and the symbol a, with any few transitions on a
\* to q0, q1 or the undeclared q2: tables with a pair missing, with a pair
\* listed twice, and complete ones; inputs over a and the undeclared b
DfaListedStart ==
    \E trs \in ListsOf({Plain(q, SymA, p) : q \in {"q0", "q1"}, p \in {"q0", "q1", "q2"}},
                        MaxTrans),
       st \in {"q0", "q1"}, F \in NonEmptySubsets({"q0", "q1"}), inp \in Inputs({"a", "b"}) :
        StartWith("dfa", PartialMachineInfo(<<"q0", "q1">>, <<SymA>>, trs, st, SetToSeq(F),
                                            None, None, None, None),
                  inp)

SpecDfaListed == DfaListedStart /\ [][NextDfaRun]_vars

\* the nfas over p, q, r with epsilon transitions only
NfaClosureStart ==
    \E trs \in ListsOf(PlainTransitions(NfaStates, {EPSILON}), MaxEpsTrans) :
        StartWith("nfa", NfaDesc(NfaStates, {SymA}, trs, "p", {"p"}), <<>>)

NextNfaClosure == ValidateNfa \/ NfaClosureApply

SpecNfaClosure == NfaClosureStart /\ [][NextNfaClosure]_vars

-----------------------------------------------------------------------------
(* The pda pipeline *)

\* the most transitions of a pda that is run
MaxPdaTrans == 2

\* the pda transitions from a state of Q on a symbol of X, with or without the
\* stack top Z, to a state of Q, with each of the stack actions of Ops
PdaTransitions(Q, X, Ops) ==
    {TransitionInfo(q, x, top, p, Some(op), None) :
        q \in Q, x \in X, top \in {None, Some(SymZ)}, p \in Q, op \in Ops}

\* a pda description over the stack alphabet Z
PdaDesc(Q, A, trs, st, F, start_stack) ==
    PartialMachineInfo(SetToSeq(Q), SetToSeq(A), trs, st, SetToSeq(F),
                       Some(<<SymZ>>), start_stack, None, None)

\* the pdas with the one state s and transitions on a and b, the transitions in
\* every order and with repetitions, declaring a and the symbols they use (b is
\* not declared unless used); and the pdas over s, t with transitions on
\* a and epsilon, started in s and accepting in t
PdaEpsilonStart ==
    \E trs \in ListsOf(PdaTransitions({"s", "t"}, {SymA, EPSILON}, {Push(SymZ), Pop, NoOp}),
                        MaxPdaTrans),
       start_stack \in {None, Some(SymZ)}, inp \in Inputs({"a"}) :
        StartWith("pda", PdaDesc({"s", "t"}, {SymA}, trs, "s", {"t"}, start_stack), inp)

PdaRunStart ==
    \/ \E trs \in SeqsUpTo(PdaTransitions({"s"}, {SymA, SymB}, {Push(SymZ), Pop, NoOp}),
                           MaxPdaTrans),
          start_stack \in {None, Some(SymZ)}, inp \in Inputs({"a", "b"}) :
           StartWith("pda", PdaDesc({"s"}, {SymA} \cup {t.from.with_symbol : t \in Range(trs)},
                                   trs, "s", {"s"}, start_stack), inp)
    \/ PdaEpsilonStart

NextPdaRun ==
    \/ ValidatePda \/ PdaNew \/ PdaEpsilonBefore \/ PdaLoopHead
    \/ PdaEpsilonFirst \/ PdaSymbol \/ PdaReturn

SpecPdaRun == PdaRunStart /\ [][NextPdaRun]_vars

\* the pdas declaring the states s, t and the stack alphabet Z, started in s
\* with no start_stack, with Z or with the undeclared 1, whose transitions
\* lead on a or epsilon to s, t or the undeclared u and push Z, push the
\* undeclared 1, or pop
PdaStackStart ==
    \E trs \in ListsOf({TransitionInfo(q, x, None, p, Some(op), None) :
                            q \in {"s", "t"}, x \in {SymA, EPSILON}, p \in {"s", "t", "u"},
                            op \in {Push(SymZ), Push(Sym1), Pop}},
                        MaxPdaTrans),
       start_stack \in {None, Some(SymZ), Some(Sym1)}, inp \in Inputs({"a"}) :
        StartWith("pda", PdaDesc({"s", "t"}, {SymA}, trs, "s", {"t"}, start_stack), inp)

SpecPdaStack == PdaStackStart /\ [][NextPdaRun]_vars

\* the run of the pdas with epsilon transitions as the one thread of
\* handle_cli executes it: a statement that can be executed is executed
SpecPdaRunFair == PdaEpsilonStart /\ [][NextPdaRun]_vars /\ WF_vars(NextPdaRun)

-----------------------------------------------------------------------------
(* The tm pipeline *)

\* no transition, or one transition from q0 reading x: to q0 or qf, writing any
\* tape symbol, moving either way
TmRows(x) ==
    {<<>>} \cup
    {<<TransitionInfo("q0", x, None, p, Some(Write(w)), Some(d))>> :
        p \in {"q0", "qf"}, w \in {Sym0, Sym1, SymBlank}, d \in {Left, Right}}

\* a tm description over the tape alphabet 0, 1, B with blank B
TmDesc(trs, st, F) ==
    PartialMachineInfo(<<"q0", "qf">>, <<Sym0, Sym1>>, trs, st, SetToSeq(F),
                       None, None, Some(<<Sym0, Sym1, SymBlank>>), Some(SymBlank))

\* the tms over q0, qf with at most one transition for each symbol read in q0,
\* started in q0, with either state final, and inputs over 0 and 1
TmRunStart ==
    \E r1 \in TmRows(Sym1), r0 \in TmRows(Sym0), rB \in TmRows(SymBlank),
       F \in {{"qf"}, {"q0"}}, inp \in Inputs({"0", "1"}) :
        StartWith("tm", TmDesc(r1 \o r0 \o rB, "q0", F), inp)

NextTmRun == ValidateTm \/ TmNew \/ TmWriteInput \/ TmRewind \/ TmStart \/ TmStep

SpecTmRun == TmRunStart /\ [][NextTmRun]_vars

-----------------------------------------------------------------------------
(* The Tape on its own: any sequence of its three operations from Tape::new *)

\* Tape::new(B) for the tape alphabet 0, 1, B
TapeStart ==
    /\ src = <<>>
    /\ lexed = None
    /\ parsed = None
    /\ kind = "tape"
    /\ machine = TmDesc(<<>>, "q0", {"qf"})
    /\ pc = "tape"
    /\ outcome = None
    /\ input = <<>>
    /\ position = 0
    /\ current = None
    /\ stack = <<>>
    /\ tape = tape_new(SymBlank).tape
    /\ head = tape_new(SymBlank).position
    /\ made_transition = FALSE
    /\ result = None
    /\ last = Some([written |-> EmptyMap, cursor |-> 0])

NextTape == TapeWrite \/ TapeMoveLeft \/ TapeMoveRight

SpecTape == TapeStart /\ [][NextTape]_vars

\* the pdas over s, t with transitions on a and epsilon, with and without the
\* stack top Z, that push Z or pop
PdaKeysStart ==
    \E trs \in ListsOf(PdaTransitions({"s", "t"}, {SymA, EPSILON}, {Push(SymZ), Pop}),
                        MaxPdaTrans),
       start_stack \in {None, Some(SymZ)}, inp \in Inputs({"a"}) :
        StartWith("pda", PdaDesc({"s", "t"}, {SymA}, trs, "s", {"t"}, start_stack), inp)

\* the runs of the automata whose run iterates over a HashSet or a HashMap
RunsAnyOrderStart == DfaRunStart \/ NfaRunStart \/ PdaKeysStart

NextRunsAnyOrder == NextDfaRun \/ NextNfaRun \/ NextPdaRun

SpecRunsAnyOrder == RunsAnyOrderStart /\ [][NextRunsAnyOrder]_vars

\* the Tape under any sequence of its operations, and under those that run makes
TapeInRunStart == TapeStart \/ TmRunStart

NextTapeInRun == NextTape \/ NextTmRun

SpecTapeInRun == TapeInRunStart /\ [][NextTapeInRun]_vars

-----------------------------------------------------------------------------
(* Claims about validation *)

\* the validator has returned
HasValidated == is_some(outcome)

\* the description's declared sets
DeclaredStates == Range(machine.states)

DeclaredAlphabet == Range(machine.alphabet)

DeclaredTapeAlphabet ==
    IF is_some(machine.tape_alphabet) THEN Range(unwrap(machine.tape_alphabet)) ELSE {}

\* the transitions of the description declared for the pair (s, a)
DeclaredFor(s, a) ==
    {i \in DOMAIN machine.transitions :
        /\ machine.transitions[i].from.initial = s
        /\ machine.transitions[i].from.with_symbol = a}

\* two transitions of the description share their (state, symbol)
HasRepeatedPair ==
    \E i, j \in DOMAIN machine.transitions :
        /\ i < j
        /\ machine.transitions[i].from.initial = machine.transitions[j].from.initial
        /\ machine.transitions[i].from.with_symbol = machine.transitions[j].from.with_symbol

\* a declared (state, symbol) pair has no transition in the description
HasMissingPair ==
    \E s \in DeclaredStates, a \in DeclaredAlphabet : DeclaredFor(s, a) = {}

RefsDeclared ==
    LET symbols == IF kind = "dfa" THEN DeclaredAlphabet
                   ELSE IF kind = "tm" THEN DeclaredTapeAlphabet \cup {EPSILON}
                   ELSE DeclaredAlphabet \cup {EPSILON}
    IN  /\ \A i \in DOMAIN machine.transitions :
            /\ machine.transitions[i].from.initial \in DeclaredStates
            /\ machine.transitions[i].to.state \in DeclaredStates
            /\ machine.transitions[i].from.with_symbol \in symbols
        /\ Range(machine.final_states) \subseteq DeclaredStates
        /\ machine.start_state \in DeclaredStates

UnknownKinds == {"UnknownState", "UnknownAlphabetSymbol", "UnknownTapeSymbol"}

\* the description has a defect, other than an undeclared reference, that the
\* validator of its kind reports: a field or operation of another kind, a missing
\* required field or operation, or (dfa) a repeated (state, symbol) pair
OtherDefect ==
    LET trs == Range(machine.transitions) IN
    CASE kind \in {"dfa", "nfa"} ->
            \/ is_some(machine.stack_alphabet) \/ is_some(machine.start_stack)
            \/ is_some(machine.tape_alphabet) \/ is_some(machine.blank_symbol)
            \/ \E t \in trs : \/ is_some(t.from.with_stack_symbol)
                              \/ is_some(t.to.op) \/ is_some(t.to.dir)
            \/ (kind = "dfa" /\ HasRepeatedPair)
      [] kind = "pda" ->
            \/ is_none(machine.stack_alphabet)
            \/ \E t \in trs : is_none(t.to.op) \/ unwrap(t.to.op).tag = "Write"
      [] kind = "tm" ->
            \/ is_none(machine.tape_alphabet) \/ is_none(machine.blank_symbol)
            \/ \E t \in trs : \/ is_none(t.to.op) \/ unwrap(t.to.op).tag # "Write"
                              \/ is_none(t.to.dir)

\* C2 as stated: validation succeeds only if every reference is declared, and an
\* undeclared reference always makes it fail with an unknown-state or
\* unknown-symbol error.
C2_AsStated ==
    HasValidated =>
        /\ unwrap(outcome).ok => RefsDeclared
        /\ ~RefsDeclared => ErrKind(unwrap(outcome)) \in UnknownKinds

\* C2 amended: for each of the four validators, validation succeeds only if every
\* reference is declared; an undeclared reference always makes validation fail, and
\* the error is an unknown-state or unknown-symbol error whenever the description
\* has no other defect that the validator reports.
C2_RefsDeclaredOrRejected ==
    HasValidated =>
        /\ unwrap(outcome).ok => RefsDeclared
        /\ ~RefsDeclared => ~unwrap(outcome).ok
        /\ (~RefsDeclared /\ ~OtherDefect) => ErrKind(unwrap(outcome)) \in UnknownKinds

\* C2 witness: a validator other than the dfa's has rejected a description whose
\* only undeclared reference is the destination of a transition
C2_Witness ==
    /\ HasValidated /\ kind # "dfa"
    /\ ErrKind(unwrap(outcome)) = "UnknownState"
    /\ machine.start_state \in DeclaredStates
    /\ Range(machine.final_states) \subseteq DeclaredStates
    /\ \A i \in DOMAIN machine.transitions :
           machine.transitions[i].from.initial \in DeclaredStates
    /\ \E i \in DOMAIN machine.transitions :
           machine.transitions[i].to.state \notin DeclaredStates

\* the description has a stack section, a tape section
HasStackSection == is_some(machine.stack_alphabet) \/ is_some(machine.start_stack)

HasTapeSection == is_some(machine.tape_alphabet) \/ is_some(machine.blank_symbol)

\* a transition has a from-stack-symbol or a PUSH, POP or NOOP action
StackElement(t) ==
    \/ is_some(t.from.with_stack_symbol)
    \/ is_some(t.to.op) /\ unwrap(t.to.op).tag \in {"Push", "Pop", "NoOp"}

\* a transition has a WRITE action or a direction
TapeElement(t) ==
    \/ is_some(t.to.op) /\ unwrap(t.to.op).tag = "Write"
    \/ is_some(t.to.dir)

HasStackElement == HasStackSection \/ \E t \in Range(machine.transitions) : StackElement(t)

HasTapeElement == HasTapeSection \/ \E t \in Range(machine.transitions) : TapeElement(t)

\* C20 as stated: any stack element makes dfa validation fail with the
\* stack-operations-not-allowed error and any tape element with the
\* tape-operations-not-allowed error.
C20_AsStated ==
    (kind = "dfa" /\ HasValidated) =>
        /\ HasStackElement => ErrKind(unwrap(outcome)) = "StackOperationsNotAllowed"
        /\ HasTapeElement => ErrKind(unwrap(outcome)) = "TapeOperationsNotAllowed"
        /\ (HasStackElement \/ HasTapeElement) => ~unwrap(outcome).ok

\* the transition at index j has declared states and symbol and a pair no
\* earlier transition has, and no stack or tape element
CleanAt(j) ==
    LET t == machine.transitions[j] IN
    /\ ~StackElement(t) /\ ~TapeElement(t)
    /\ t.from.initial \in DeclaredStates /\ t.to.state \in DeclaredStates
    /\ t.from.with_symbol \in DeclaredAlphabet
    /\ \A k \in 1..(j - 1) :
           \/ machine.transitions[k].from.initial # t.from.initial
           \/ machine.transitions[k].from.with_symbol # t.from.with_symbol

\* C20 amended: no description with a stack or tape element validates as a dfa.
\* The error is the stack one whenever a stack section is present, the tape one
\* whenever a tape section is present and no stack section is, and otherwise,
\* the final and initial states being declared, that of the first transition
\* with a defect: the stack one if it has a from-stack-symbol or a PUSH, POP or
\* NOOP action, else the tape one if it has a WRITE action or a direction.
C20_MixedRejected ==
    (kind = "dfa" /\ HasValidated) =>
        LET kindOf == ErrKind(unwrap(outcome)) IN
        /\ (HasStackElement \/ HasTapeElement) => ~unwrap(outcome).ok
        /\ HasStackSection => kindOf = "StackOperationsNotAllowed"
        /\ (HasTapeSection /\ ~HasStackSection) => kindOf = "TapeOperationsNotAllowed"
        /\ \A i \in DOMAIN machine.transitions :
               ( /\ ~HasStackSection /\ ~HasTapeSection
                 /\ Range(machine.final_states) \subseteq DeclaredStates
                 /\ machine.start_state \in DeclaredStates
                 /\ \A j \in 1..(i - 1) : CleanAt(j)
                 /\ (StackElement(machine.transitions[i]) \/ TapeElement(machine.transitions[i])) )
               => kindOf = IF StackElement(machine.transitions[i])
                           THEN "StackOperationsNotAllowed"
                           ELSE "TapeOperationsNotAllowed"

\* C20 witness: no optional section, a clean first transition, and a second one
\* whose only foreign element is a direction, rejected with the tape error
C20_Witness ==
    /\ kind = "dfa" /\ HasValidated
    /\ ~HasStackSection /\ ~HasTapeSection
    /\ Len(machine.transitions) = 2 /\ CleanAt(1)
    /\ ~StackElement(machine.transitions[2])
    /\ is_none(machine.transitions[2].to.op) /\ is_some(machine.transitions[2].to.dir)
    /\ ErrKind(unwrap(outcome)) = "TapeOperationsNotAllowed"

-----------------------------------------------------------------------------
(* Claims about the matching of input characters *)

\* a declared symbol of exactly one character, which is c
OneCharSymbolFor(c) == \E s \in TheInfo.alphabet : Len(s) = 1 /\ s[1] = c

\* C29 as stated, on the dfa run: an input character is matched to a declared
\* symbol exactly when the symbol consists of exactly one character and that
\* character is the input character; run gives up on a character for want of a
\* symbol only when no declared one-character symbol is that character.
C29_AsStated ==
    (kind = "dfa" /\ is_some(last)) =>
        /\ last = Some("not_in_alphabet") => ~OneCharSymbolFor(input[position + 1])
        /\ last = Some("no_transition") => OneCharSymbolFor(input[position + 1])
        /\ last = Some("moved") => OneCharSymbolFor(input[position])

\* the same for characters of one byte: the matching is as stated on them
C29_OnOneByteCharacters ==
    (kind = "dfa" /\ is_some(last)) =>
        /\ (last = Some("not_in_alphabet") /\ len_utf8(input[position + 1]) = 1)
               => ~OneCharSymbolFor(input[position + 1])
        /\ last = Some("no_transition") => OneCharSymbolFor(input[position + 1])
        /\ last = Some("moved") => OneCharSymbolFor(input[position])

-----------------------------------------------------------------------------
(* Claims about the nfa validator's exclusions *)

\* C21 as stated: on every description nfa validation reports the
\* stack-operations-not-allowed error exactly when dfa validation reports its
\* stack error, and the tape-operations-not-allowed error exactly when dfa
\* validation reports its tape error.
C21_AsStated ==
    (kind = "nfa" /\ HasValidated) =>
        \A d \in dfa_Info_new(machine) :
            /\ ErrKind(unwrap(outcome)) = "StackOperationsNotAllowed"
                   <=> ErrKind(d) = "StackOperationsNotAllowed"
            /\ ErrKind(unwrap(outcome)) = "TapeOperationsNotAllowed"
                   <=> ErrKind(d) = "TapeOperationsNotAllowed"

\* the two validators disagree only where the first defect met is a WRITE
\* action on a transition without a from-stack-symbol
C21_OnlyOnWrite ==
    (kind = "nfa" /\ HasValidated) =>
        \A d \in dfa_Info_new(machine) :
            (ErrKind(d) \in {"StackOperationsNotAllowed", "TapeOperationsNotAllowed"}
             /\ ErrKind(d) # ErrKind(unwrap(outcome)))
            => /\ ErrKind(d) = "TapeOperationsNotAllowed"
               /\ ErrKind(unwrap(outcome)) = "StackOperationsNotAllowed"
               /\ \E t \in Range(machine.transitions) :
                      /\ is_none(t.from.with_stack_symbol)
                      /\ is_some(t.to.op) /\ unwrap(t.to.op).tag = "Write"

-----------------------------------------------------------------------------
(* Claims about what the pda validator requires *)

DeclaredStackAlphabet ==
    IF is_some(machine.stack_alphabet) THEN Range(unwrap(machine.stack_alphabet)) ELSE {}

\* the transition carries PUSH:<symbol>, POP or NOOP
HasStackAction(t) == is_some(t.to.op) /\ unwrap(t.to.op).tag \in {"Push", "Pop", "NoOp"}

\* the checks pda validation makes before the transitions all pass
PdaSectionsPass ==
    /\ is_some(machine.stack_alphabet)
    /\ is_some(machine.start_stack) => unwrap(machine.start_stack) \in DeclaredStackAlphabet
    /\ Range(machine.final_states) \subseteq DeclaredStates
    /\ machine.start_state \in DeclaredStates

\* the transition at index j has a stack action and declared states and symbols
PdaCleanAt(j) ==
    LET t == machine.transitions[j] IN
    /\ HasStackAction(t)
    /\ t.from.initial \in DeclaredStates /\ t.to.state \in DeclaredStates
    /\ t.from.with_symbol \in DeclaredAlphabet \cup {EPSILON}
    /\ is_some(t.from.with_stack_symbol)
           => unwrap(t.from.with_stack_symbol) \in DeclaredStackAlphabet
    /\ unwrap(t.to.op).tag = "Push" => unwrap(t.to.op).sym \in DeclaredStackAlphabet

\* Machine::new has built the machine
PdaBuilt == kind = "pda" /\ HasValidated /\ unwrap(outcome).ok /\ pc # "new"

\* the stack Machine::new is to start with
StartStack ==
    IF is_none(machine.start_stack) THEN <<>> ELSE <<unwrap(machine.start_stack)>>

\* C22 as stated: pda validation succeeds only with a stack_alphabet section and
\* a stack action on every transition; a missing stack alphabet, and any
\* transition without a stack action, fails with the
\* stack-operations-required error; the machine built starts with an empty
\* stack when start_stack is missing and with exactly that symbol otherwise.
C22_AsStated ==
    (kind = "pda" /\ HasValidated) =>
        /\ unwrap(outcome).ok =>
               /\ is_some(machine.stack_alphabet)
               /\ \A t \in Range(machine.transitions) : HasStackAction(t)
        /\ ( \/ is_none(machine.stack_alphabet)
             \/ \E t \in Range(machine.transitions) : is_none(t.to.op) )
               => ErrKind(unwrap(outcome)) = "StackOperationsRequired"
        /\ PdaBuilt => stack = StartStack

\* C22 amended: as stated, except that a transition without a stack action is
\* reported with the stack-operations-required error when no earlier check
\* fails: the sections pass and the transitions before it are clean.
\* Otherwise validation still fails, with the error of the earlier check.
C22_StackRequired ==
    (kind = "pda" /\ HasValidated) =>
        /\ unwrap(outcome).ok =>
               /\ is_some(machine.stack_alphabet)
               /\ \A t \in Range(machine.transitions) : HasStackAction(t)
        /\ is_none(machine.stack_alphabet)
               => ErrKind(unwrap(outcome)) = "StackOperationsRequired"
        /\ \A i \in DOMAIN machine.transitions :
               ( /\ PdaSectionsPass
                 /\ \A j \in 1..(i - 1) : PdaCleanAt(j)
                 /\ is_none(machine.transitions[i].to.op) )
               => ErrKind(unwrap(outcome)) = "StackOperationsRequired"
        /\ PdaBuilt => stack = StartStack

\* C22 witness: a description with a stack alphabet, no start_stack and two
\* transitions with stack actions has validated and its machine starts with an
\* empty stack
C22_Witness ==
    /\ PdaBuilt
    /\ is_none(machine.start_stack) /\ stack = <<>>
    /\ Len(machine.transitions) = 2

\* a clean transition followed by one without a stack action and with an
\* undeclared destination is rejected with the stack-operations-required error
C22_WitnessRejected ==
    /\ kind = "pda" /\ HasValidated /\ PdaSectionsPass
    /\ Len(machine.transitions) = 2 /\ PdaCleanAt(1)
    /\ is_none(machine.transitions[2].to.op)
    /\ machine.transitions[2].to.state \notin DeclaredStates
    /\ ErrKind(unwrap(outcome)) = "StackOperationsRequired"

-----------------------------------------------------------------------------
(* Claims about what the tm validator requires *)

\* the transition carries WRITE:<symbol>
HasWrite(t) == is_some(t.to.op) /\ unwrap(t.to.op).tag = "Write"

\* the checks tm validation makes before the transitions all pass
TmSectionsPass ==
    /\ is_some(machine.tape_alphabet) /\ is_some(machine.blank_symbol)
    /\ Range(machine.final_states) \subseteq DeclaredStates
    /\ machine.start_state \in DeclaredStates

\* the states and the from-symbol of the transition at index j are declared
TmRefsAt(j) ==
    LET t == machine.transitions[j] IN
    /\ t.from.initial \in DeclaredStates /\ t.to.state \in DeclaredStates
    /\ t.from.with_symbol \in DeclaredTapeAlphabet \cup {EPSILON}

\* the transition at index j passes every check
TmCleanAt(j) ==
    LET t == machine.transitions[j] IN
    /\ TmRefsAt(j)
    /\ HasWrite(t) /\ unwrap(t.to.op).sym \in DeclaredTapeAlphabet
    /\ is_some(t.to.dir)

\* the transition at index i is the first at which a check can fail, and
\* its states and from-symbol are declared
TmFirstAt(i) == TmSectionsPass /\ TmRefsAt(i) /\ \A j \in 1..(i - 1) : TmCleanAt(j)

\* C23 as stated: tm validation succeeds only if every transition carries a
\* WRITE of a declared tape symbol and a direction; any transition with PUSH,
\* POP, NOOP or no operation fails with the missing-tape-operation error, any
\* transition without a direction fails, and any write symbol outside the
\* tape alphabet fails with the unknown-tape-symbol error.
C23_AsStated ==
    (kind = "tm" /\ HasValidated) =>
        \A t \in Range(machine.transitions) :
            /\ unwrap(outcome).ok =>
                   /\ HasWrite(t) /\ unwrap(t.to.op).sym \in DeclaredTapeAlphabet
                   /\ is_some(t.to.dir)
            /\ ~HasWrite(t) => ErrKind(unwrap(outcome)) = "MissingTapeOperation"
            /\ is_none(t.to.dir) => ~unwrap(outcome).ok
            /\ (HasWrite(t) /\ unwrap(t.to.op).sym \notin DeclaredTapeAlphabet)
                   => ErrKind(unwrap(outcome)) = "UnknownTapeSymbol"

\* C23 amended: as stated, the two named errors being those reported when no
\* earlier check fails: the sections pass, the transitions before are clean
\* and the transition's own states and from-symbol are declared.  A transition
\* that then has a declared write symbol and no direction fails with the
\* missing-section error naming the direction.
C23_WriteAndDirection ==
    (kind = "tm" /\ HasValidated) =>
        \A i \in DOMAIN machine.transitions :
            LET t == machine.transitions[i] IN
            /\ unwrap(outcome).ok =>
                   /\ HasWrite(t) /\ unwrap(t.to.op).sym \in DeclaredTapeAlphabet
                   /\ is_some(t.to.dir)
            /\ (TmFirstAt(i) /\ ~HasWrite(t))
                   => ErrKind(unwrap(outcome)) = "MissingTapeOperation"
            /\ (TmFirstAt(i) /\ HasWrite(t) /\ unwrap(t.to.op).sym \notin DeclaredTapeAlphabet)
                   => ErrKind(unwrap(outcome)) = "UnknownTapeSymbol"
            /\ (TmFirstAt(i) /\ HasWrite(t) /\ unwrap(t.to.op).sym \in DeclaredTapeAlphabet
                  /\ is_none(t.to.dir))
                   => unwrap(outcome) = Err("MissingSection", <<"direction">>)

\* C23 witness: a clean transition followed by one writing an undeclared
\* symbol, rejected with the unknown-tape-symbol error
C23_Witness ==
    /\ kind = "tm" /\ HasValidated
    /\ Len(machine.transitions) = 2 /\ TmFirstAt(2)
    /\ HasWrite(machine.transitions[2])
    /\ unwrap(machine.transitions[2].to.op).sym \notin DeclaredTapeAlphabet
    /\ ErrKind(unwrap(outcome)) = "UnknownTapeSymbol"

\* C24: tm validation fails with the missing-section error naming tape_alphabet
\* when that section is absent, and with the one naming blank_symbol when
\* tape_alphabet is present and blank_symbol is absent; a description lacking
\* either never validates as a tm.
C24_TapeSectionsRequired ==
    (kind = "tm" /\ HasValidated) =>
        /\ is_none(machine.tape_alphabet)
               => unwrap(outcome) = Err("MissingSection", <<"tape_alphabet">>)
        /\ (is_some(machine.tape_alphabet) /\ is_none(machine.blank_symbol))
               => unwrap(outcome) = Err("MissingSection", <<"blank_symbol">>)
        /\ unwrap(outcome).ok
               => is_some(machine.tape_alphabet) /\ is_some(machine.blank_symbol)

\* C24 witness: a description with neither tape section, a stack section and a
\* transition, rejected with the error naming tape_alphabet
C24_Witness ==
    /\ kind = "tm" /\ HasValidated
    /\ is_none(machine.tape_alphabet) /\ is_none(machine.blank_symbol)
    /\ is_some(machine.stack_alphabet) /\ Len(machine.transitions) = 1
    /\ unwrap(outcome) = Err("MissingSection", <<"tape_alphabet">>)

\* the index of the last transition declared for the pair (s, a)
LastFor(s, a) == CHOOSE i \in DeclaredFor(s, a) : \A j \in DeclaredFor(s, a) : j <= i

\* the indices of the transitions that are the last declared for their pair
LastDeclared ==
    {i \in DOMAIN machine.transitions :
        i = LastFor(machine.transitions[i].from.initial,
                    machine.transitions[i].from.with_symbol)}

\* the description without the transitions that a later one for the same
\* pair follows
WithoutEarlier ==
    [machine EXCEPT !.transitions =
        LET kept == SetToSeq(LastDeclared)
        IN  [k \in DOMAIN kept |-> machine.transitions[kept[k]]]]

\* every check of tm validation passes, repeated pairs not being looked at
TmAllPass == TmSectionsPass /\ \A j \in DOMAIN machine.transitions : TmCleanAt(j)

\* C25: repeated transitions for one (state, tape symbol) are no error of tm
\* validation: a description that passes every other check validates, its
\* table maps each pair to the destination, write symbol and direction of the
\* last transition declared for it, and the validated machine is the one
\* validated from the description without the earlier transitions.
C25_LastDeclaredWins ==
    (kind = "tm" /\ HasValidated) =>
        /\ TmAllPass => unwrap(outcome).ok
        /\ unwrap(outcome).ok =>
               LET table == unwrap(unwrap(outcome).info).transitions IN
               /\ \A i \in DOMAIN machine.transitions :
                      LET t == machine.transitions[i]
                          l == machine.transitions[LastFor(t.from.initial, t.from.with_symbol)]
                      IN  table[TMTransitionFrom(t.from.initial, t.from.with_symbol)]
                            = TMTransitionTo(l.to.state, unwrap(l.to.op).sym, unwrap(l.to.dir))
               /\ unwrap(outcome) \in tm_Info_new(WithoutEarlier)

\* C25 witness: two transitions for one pair that differ in destination,
\* write symbol and direction have validated, and the table holds the second
C25_Witness ==
    /\ kind = "tm" /\ HasValidated /\ unwrap(outcome).ok
    /\ Len(machine.transitions) = 2
    /\ LET a == machine.transitions[1]
           b == machine.transitions[2]
       IN  /\ a.from = b.from
           /\ a.to.state # b.to.state /\ a.to.op # b.to.op /\ a.to.dir # b.to.dir
           /\ unwrap(unwrap(outcome).info).transitions
                  [TMTransitionFrom(b.from.initial, b.from.with_symbol)]
                = TMTransitionTo(b.to.state, unwrap(b.to.op).sym, unwrap(b.to.dir))

-----------------------------------------------------------------------------
(* Claims about the elements of another kind in pda and tm descriptions *)

\* C26 as stated: pda validation fails when the description has a
\* tape_alphabet or blank_symbol section or a transition with a direction, and
\* tm validation fails when it has a stack_alphabet or start_stack section or
\* a transition with a from-stack-symbol.
C26_AsStated ==
    HasValidated =>
        /\ ( /\ kind = "pda"
             /\ \/ HasTapeSection
                \/ \E t \in Range(machine.transitions) : is_some(t.to.dir) )
               => ~unwrap(outcome).ok
        /\ ( /\ kind = "tm"
             /\ \/ HasStackSection
                \/ \E t \in Range(machine.transitions) : is_some(t.from.with_stack_symbol) )
               => ~unwrap(outcome).ok

\* the pda validator's result does not depend on the tape sections and the
\* directions of the description, nor the tm validator's on the stack
\* sections and the from-stack-symbols
C26_ForeignIgnored ==
    HasValidated =>
        /\ kind = "pda" =>
               unwrap(outcome) \in
                   pda_Info_new([machine EXCEPT
                       !.tape_alphabet = None, !.blank_symbol = None,
                       !.transitions = [i \in DOMAIN machine.transitions |->
                                           [machine.transitions[i] EXCEPT !.to.dir = None]]])
        /\ kind = "tm" =>
               unwrap(outcome) \in
                   tm_Info_new([machine EXCEPT
                       !.stack_alphabet = None, !.start_stack = None,
                       !.transitions = [i \in DOMAIN machine.transitions |->
                                           [machine.transitions[i] EXCEPT
                                               !.from.with_stack_symbol = None]]])

\* C28 as stated: pda validation fails when start_stack is not a member of
\* stack_alphabet, and tm validation fails when blank_symbol is not a member
\* of tape_alphabet.
C28_AsStated ==
    HasValidated =>
        /\ ( /\ kind = "pda"
             /\ is_some(machine.start_stack)
             /\ unwrap(machine.start_stack) \notin DeclaredStackAlphabet )
               => ~unwrap(outcome).ok
        /\ ( /\ kind = "tm"
             /\ is_some(machine.blank_symbol)
             /\ unwrap(machine.blank_symbol) \notin DeclaredTapeAlphabet )
               => ~unwrap(outcome).ok

\* the pda half of C28 holds, with the unknown-alphabet-symbol error when the
\* stack alphabet is present
C28_PdaHalf ==
    (kind = "pda" /\ HasValidated /\ is_some(machine.start_stack)
     /\ unwrap(machine.start_stack) \notin DeclaredStackAlphabet)
        => /\ ~unwrap(outcome).ok
           /\ is_some(machine.stack_alphabet)
                  => unwrap(outcome) = Err("UnknownAlphabetSymbol", <<unwrap(machine.start_stack)>>)

-----------------------------------------------------------------------------
(* Claims about the dfa machine *)

\* run has returned
HasReturned == pc = "done"

\* the character c equals a declared alphabet symbol: the symbol is the text <<c>>
IsDeclaredChar(c) == <<c>> \in DeclaredAlphabet

RECURSIVE DeltaStar(_, _)
\* the state reached from q over the characters w by the transitions the
\* description declares (one per declared pair in a validated dfa)
DeltaStar(q, w) ==
    IF w = <<>> THEN q
    ELSE LET i == CHOOSE j \in DOMAIN machine.transitions :
                      /\ machine.transitions[j].from.initial = q
                      /\ machine.transitions[j].from.with_symbol = <<Head(w)>>
         IN  DeltaStar(machine.transitions[i].to.state, Tail(w))

\* C3: run returns true exactly when every input character equals some declared
\* alphabet symbol and the state reached from the start state over the whole
\* input is final; it returns false at the first character matching no symbol.
C3_DfaRunAsStated ==
    (kind = "dfa" /\ HasReturned) =>
        LET allDeclared == \A i \in DOMAIN input : IsDeclaredChar(input[i]) IN
        /\ unwrap(result) =
              (allDeclared /\ DeltaStar(machine.start_state, input) \in Range(machine.final_states))
        /\ ~allDeclared =>
              position + 1 = CHOOSE i \in DOMAIN input :
                                 /\ ~IsDeclaredChar(input[i])
                                 /\ \A j \in 1..(i - 1) : IsDeclaredChar(input[j])

-----------------------------------------------------------------------------
(* Claims about the lookups of the dfa machine *)

\* Machine::new has built the machine of a validated dfa
DfaRunning == kind = "dfa" /\ pc \in {"run", "done"}

\* the symbol the character at `position` matches, if any
DfaMatched == dfa_find_symbol(TheInfo, input[position + 1])

\* C38: during every run of a validated dfa the current state is always a
\* declared state and the lookup of (current state, matched symbol) always
\* finds a table entry: the no-transition rejection is unreachable, and a run
\* that returns false before the end of the input does so only because a
\* character matches no alphabet symbol.
C38_LookupAlwaysFinds ==
    DfaRunning =>
        /\ current \in DeclaredStates
        /\ last # Some("no_transition")
        /\ (pc = "run" /\ position < Len(input) /\ is_some(DfaMatched)) =>
               is_some(dfa_get(TheInfo, TransitionFrom(current, unwrap(DfaMatched))))
        /\ (pc = "done" /\ position < Len(input)) =>
               /\ result = Some(FALSE)
               /\ last = Some("not_in_alphabet")
               /\ is_none(DfaMatched)

\* C38 witness: a dfa with a complete table has moved on a character and then
\* has returned false on a character that matches no symbol, input being left
C38_Witness ==
    /\ DfaRunning /\ pc = "done" /\ result = Some(FALSE)
    /\ position = 1 /\ Len(input) = 2
    /\ current # machine.start_state
    /\ Len(machine.transitions) = 2

-----------------------------------------------------------------------------
(* Claims about the nfa machine *)

\* the destinations of the transitions the description declares from a state of
\* S with the label x
Image(S, x) ==
    {machine.transitions[i].to.state : i \in
        {j \in DOMAIN machine.transitions :
            /\ machine.transitions[j].from.initial \in S
            /\ machine.transitions[j].from.with_symbol = x}}

\* S is closed under the epsilon transitions of the description
EpsClosed(S) == Image(S, EPSILON) \subseteq S

\* the smallest set containing S that is closed under epsilon transitions
Smallest(S) ==
    CHOOSE X \in SUBSET DeclaredStates :
        /\ S \subseteq X /\ EpsClosed(X)
        /\ \A Y \in SUBSET DeclaredStates : (S \subseteq Y /\ EpsClosed(Y)) => X \subseteq Y

RECURSIVE PathStates(_)
\* the states reached from the start state by a path of the transition relation
\* whose labels, epsilon labels deleted, spell the characters w
PathStates(w) ==
    IF w = <<>>
    THEN Smallest({machine.start_state})
    ELSE Smallest(Image(PathStates(SubSeq(w, 1, Len(w) - 1)), <<w[Len(w)]>>))

\* C4: run returns true exactly when some path from the start state to a final
\* state spells the input (epsilon labels deleted).
C4_NfaRunAsStated ==
    (kind = "nfa" /\ HasReturned) =>
        unwrap(result) = (PathStates(input) \cap Range(machine.final_states) # {})

\* C5: compute_epsilon_closure is a closure operator: its result contains S, is
\* left unchanged by a second application in any order, and is the smallest set
\* containing S that is closed under epsilon transitions, whatever the order in
\* which the states of S are visited.
C5_ClosureOperator ==
    (kind = "nfa" /\ pc = "closed") =>
        /\ unwrap(last) \subseteq current
        /\ \A order \in Orders(current) :
               compute_epsilon_closure(TheInfo, current, order) = current
        /\ current = Smallest(unwrap(last))

\* C5 witness: a closure that added two states through a chain of epsilon
\* transitions to a one-state set
C5_Witness ==
    /\ kind = "nfa" /\ pc = "closed"
    /\ Cardinality(unwrap(last)) = 1
    /\ Cardinality(current) = 3
    /\ Cardinality(Image(unwrap(last), EPSILON) \ unwrap(last)) = 1

-----------------------------------------------------------------------------
(* Claims about the state set of the nfa machine *)

\* Machine::new has built the machine of a validated nfa
NfaRunning == kind = "nfa" /\ pc \in {"run", "done"}

\* C37: during every run of a validated nfa the current state set is at all
\* times a subset of the declared states and closed under epsilon
\* transitions, and it is non-empty whenever the next input character is about
\* to be processed.
C37_StateSetInvariant ==
    NfaRunning =>
        /\ current \subseteq DeclaredStates
        /\ EpsClosed(current)
        /\ (pc = "run" /\ position < Len(input)) => current # {}

\* C37 witness: a step on a character has left a set that the closure made
\* larger than the destinations of the step, with a character still to come,
\* in a family where transitions to an undeclared state are drawn
C37_Witness ==
    /\ NfaRunning /\ pc = "run" /\ last = Some("moved")
    /\ position = 1 /\ Len(input) = 2
    /\ Cardinality(current) >= 2
    /\ \E t \in Range(machine.transitions) :
           /\ t.from.with_symbol = EPSILON
           /\ t.from.initial \in current /\ t.to.state \in current
           /\ t.to.state \notin Image(Smallest({machine.start_state}), SymA)
    /\ DeclaredStates = {"p", "q"}

-----------------------------------------------------------------------------
(* Claims about the pda machine *)

\* the last call of make_transition, once one was made
LastCall == unwrap(last)

HasCalled == kind = "pda" /\ is_some(last)

\* the transitions the description declares for state q, symbol x and stack
\* requirement top (None for no requirement), in the order of declaration
DeclaredUnder(q, x, top) ==
    SelectSeq(machine.transitions,
              LAMBDA t : /\ t.from.initial = q /\ t.from.with_symbol = x
                         /\ t.from.with_stack_symbol = top)

\* the stack a declared transition leaves when taken on the stack st
StackAfter(t, st) ==
    IF unwrap(t.to.op).tag = "Push" THEN st \o <<unwrap(t.to.op).sym>>
    ELSE IF unwrap(t.to.op).tag = "Pop" /\ st # <<>> THEN SubSeq(st, 1, Len(st) - 1)
    ELSE st

\* the call took the declared transition t: state and stack are those t leaves
Took(t) ==
    /\ LastCall.fired
    /\ current = t.to.state
    /\ stack = StackAfter(t, LastCall.stack)

\* C6: a step prefers the entry keyed by the stack top, then the entry without
\* a stack requirement, and takes the first-declared destination of the entry it
\* uses; without either entry it makes no move and leaves state and stack alone.
C6_SpecificBeforeWildcard ==
    HasCalled =>
        LET q        == LastCall.state
            x        == LastCall.symbol
            st       == LastCall.stack
            specific == IF st = <<>> THEN <<>> ELSE DeclaredUnder(q, x, Some(st[Len(st)]))
            wildcard == DeclaredUnder(q, x, None)
        IN  IF specific # <<>> THEN Took(specific[1])
            ELSE IF wildcard # <<>> THEN Took(wildcard[1])
            ELSE ~LastCall.fired /\ current = q /\ stack = st

\* C6 witness: on a non-empty stack both entries exist, the one without a stack
\* requirement is declared first, and the move taken is that of the entry keyed
\* by the stack top and not the other
C6_Witness ==
    /\ HasCalled /\ LastCall.fired /\ LastCall.stack # <<>>
    /\ Len(machine.transitions) = 2
    /\ LET q  == LastCall.state
           x  == LastCall.symbol
           st == LastCall.stack
       IN  /\ DeclaredUnder(q, x, None) = <<machine.transitions[1]>>
           /\ DeclaredUnder(q, x, Some(st[Len(st)])) = <<machine.transitions[2]>>
           /\ Took(machine.transitions[2])
           /\ ~Took(machine.transitions[1])

\* an epsilon transition is declared for state q that the stack st allows
EpsilonApplicable(q, st) ==
    \E t \in Range(machine.transitions) :
        /\ t.from.initial = q /\ t.from.with_symbol = EPSILON
        /\ \/ is_none(t.from.with_stack_symbol)
           \/ st # <<>> /\ t.from.with_stack_symbol = Some(st[Len(st)])

\* C7: when a transition on an input character fires no epsilon transition is
\* applicable in the configuration it fires in, and when run returns with the
\* input exhausted none is applicable in the final configuration.
C7_EpsilonPriority ==
    /\ (HasCalled /\ LastCall.fired /\ LastCall.symbol # EPSILON) =>
           ~EpsilonApplicable(LastCall.state, LastCall.stack)
    /\ (kind = "pda" /\ HasReturned /\ position = Len(input)) =>
           ~EpsilonApplicable(current, stack)

\* C7 witness: an input transition fired in a state for which an epsilon
\* transition is declared that the stack did not allow, after an epsilon
\* transition had been taken
C7_Witness ==
    /\ HasCalled /\ LastCall.fired /\ LastCall.symbol # EPSILON
    /\ made_transition /\ position = 1
    /\ \E t \in Range(machine.transitions) :
           t.from.with_symbol = EPSILON /\ t.from.initial = machine.start_state

\* a transition is declared for state q on the character c that the stack st allows
InputApplicable(q, st, c) ==
    \E t \in Range(machine.transitions) :
        /\ t.from.initial = q /\ t.from.with_symbol = <<c>>
        /\ \/ is_none(t.from.with_stack_symbol)
           \/ st # <<>> /\ t.from.with_stack_symbol = Some(st[Len(st)])

InRun == kind = "pda" /\ pc \in {"before", "loop", "epsilon", "symbol"}

\* input remains and neither an epsilon transition nor one on the next character
\* applies
Stuck ==
    /\ position < Len(input)
    /\ ~EpsilonApplicable(current, stack)
    /\ ~InputApplicable(current, stack, input[position + 1])

\* the next character is no symbol of the declared alphabet
NoSymbol == position < Len(input) /\ <<input[position + 1]>> \notin DeclaredAlphabet

\* the number of steps run has yet to make in a stuck configuration
StepsToReject ==
    IF pc = "epsilon" THEN (IF made_transition THEN 5 ELSE 2)
    ELSE IF pc = "symbol" THEN (IF made_transition THEN 4 ELSE 1)
    ELSE IF pc = "before" THEN 4
    ELSE IF pc = "loop" THEN 3
    ELSE 0

\* the pda of the example: s(a,Z)=>s(PUSH:Z), s(b,Z)=>s(POP), start stack Z, final s
IsExamplePda ==
    /\ kind = "pda"
    /\ machine.transitions = <<TransitionInfo("s", SymA, Some(SymZ), "s", Some(Push(SymZ)), None),
                               TransitionInfo("s", SymB, Some(SymZ), "s", Some(Pop), None)>>
    /\ machine.start_stack = Some(SymZ)
    /\ Range(machine.final_states) = {"s"}

\* what C8 says of a run that has returned
C8_AtReturn ==
    (kind = "pda" /\ HasReturned) =>
        /\ result = Some(TRUE) => position = Len(input)
        /\ position = Len(input) => unwrap(result) = (current \in Range(machine.final_states))
        /\ (IsExamplePda /\ input = <<"a", "b">>) => result = Some(TRUE)
        /\ (IsExamplePda /\ input = <<"b">>) => result = Some(TRUE) /\ stack = <<>>

\* what C8 says of a run that is stuck with input left, and of a next character
\* outside the alphabet: every step leads on to the return of false
C8_WhenStuck ==
    /\ (InRun /\ Stuck) =>
           \/ pc' = "done" /\ result' = Some(FALSE)
           \/ Stuck' /\ InRun' /\ StepsToReject' < StepsToReject
    /\ (InRun /\ pc = "loop" /\ NoSymbol) => (pc' = "done" /\ result' = Some(FALSE))

\* C8: run returns true only with every input character consumed, and with the
\* input consumed it returns whether the state is final, whatever the stack; it
\* returns false when input remains and no epsilon transition and no transition
\* on the next character applies, or the next character matches no symbol.
C8_PdaRunResult == []C8_AtReturn /\ [][C8_WhenStuck]_vars

\* C8 witness: the example pda has accepted "ab" with a symbol left on the stack
C8_Witness ==
    /\ IsExamplePda /\ HasReturned
    /\ input = <<"a", "b">> /\ result = Some(TRUE) /\ stack = <<SymZ>>

\* C9: a Pop taken on an empty stack leaves the stack empty and still moves to
\* the destination, and no result or error comes of it.
C9_PopOnEmptyStack ==
    (HasCalled /\ LastCall.fired /\ unwrap(LastCall.taken).stack_action = Pop
        /\ LastCall.stack = <<>>) =>
        /\ stack = <<>>
        /\ current = unwrap(LastCall.taken).state
        /\ (pc # "done" => is_none(result))
        /\ pc \in {"before", "loop", "epsilon", "symbol", "return", "done"}

\* C9 witness: a Pop on the empty stack that changed the state
C9_Witness ==
    /\ HasCalled /\ LastCall.fired /\ unwrap(LastCall.taken).stack_action = Pop
    /\ LastCall.stack = <<>>
    /\ current # LastCall.state

-----------------------------------------------------------------------------
(* Claims about the configurations of the pda machine *)

\* Machine::new has built the machine of a validated pda
PdaRunning == kind = "pda" /\ pc \in {"before", "loop", "epsilon", "symbol", "return", "done"}

\* C33: in every reachable configuration of a run of a validated pda every
\* symbol on the stack is a member of the declared stack alphabet (the
\* start_stack symbol and every pushed symbol having been checked at
\* validation) and the current state is a declared state.
C33_StackAndStateDeclared ==
    PdaRunning =>
        /\ \A k \in DOMAIN stack : stack[k] \in DeclaredStackAlphabet
        /\ current \in DeclaredStates

\* C33 witness: a declared push has fired on the start symbol and has left the
\* start state, in a description whose states and stack symbols are not all the
\* symbols and states there are
C33_Witness ==
    /\ PdaRunning /\ HasCalled /\ LastCall.fired
    /\ unwrap(LastCall.taken).stack_action.tag = "Push"
    /\ Len(stack) >= 2 /\ stack[1] = unwrap(machine.start_stack)
    /\ current = "t" /\ LastCall.state = "s"
    /\ Sym1 \notin DeclaredStackAlphabet /\ "u" \notin DeclaredStates

-----------------------------------------------------------------------------
(* Claims about the termination of the pda machine *)

\* the call of make_transition that is next would leave a stack deeper than
\* the model follows
PdaStackCapped ==
    /\ kind = "pda" /\ pc \in {"before", "epsilon", "symbol"}
    /\ LET symbol == IF pc = "symbol"
                     THEN unwrap(pda_current_symbol(TheInfo, input, position))
                     ELSE EPSILON
       IN  Len(make_transition(TheInfo, current, stack, symbol, pda_back(stack)).stack)
              > MaxStack

\* C32 as stated: run terminates for every validated pda and every finite
\* input: each phase of epsilon firing (before the first character, before
\* each character, after the input is exhausted) ends after finitely many
\* epsilon transitions, so run always returns a boolean.  (Runs whose stack
\* outgrows the model are left out.)  An epsilon transition that fires and
\* leaves state and stack as they were changes no variable: the run that
\* repeats it for ever is the behaviour that stays in that state with
\* PdaEpsilonBefore or PdaEpsilonFirst enabled.
C32_AsStated == <>(pc \in {"done", "error"} \/ PdaStackCapped)

-----------------------------------------------------------------------------
(* Claims about the tm machine *)

Blank == unwrap(machine.blank_symbol)

RECURSIVE StripFront(_)
\* a sequence of cells without the blanks at its front
StripFront(cells) ==
    IF cells # <<>> /\ Head(cells) = Blank THEN StripFront(Tail(cells)) ELSE cells

RECURSIVE StripBack(_)
\* a sequence of cells without the blanks at its back
StripBack(cells) ==
    IF cells # <<>> /\ cells[Len(cells)] = Blank
    THEN StripBack(SubSeq(cells, 1, Len(cells) - 1))
    ELSE cells

\* the tape as seen from the cursor: the cells to its left, the cell under it
\* and the cells to its right, all cells beyond being blank
View(cells, pos) ==
    [left  |-> StripFront(SubSeq(cells, 1, pos)),
     under |-> IF pos < Len(cells) THEN cells[pos + 1] ELSE Blank,
     right |-> StripBack(SubSeq(cells, pos + 2, Len(cells)))]

\* the view after writing w under the cursor and moving one cell in direction d
ViewAfter(v, w, d) ==
    IF d = Left
    THEN [left  |-> IF v.left = <<>> THEN <<>> ELSE SubSeq(v.left, 1, Len(v.left) - 1),
          under |-> IF v.left = <<>> THEN Blank ELSE v.left[Len(v.left)],
          right |-> StripBack(<<w>> \o v.right)]
    ELSE [left  |-> StripFront(v.left \o <<w>>),
          under |-> IF v.right = <<>> THEN Blank ELSE Head(v.right),
          right |-> IF v.right = <<>> THEN <<>> ELSE Tail(v.right)]

\* the transitions the description declares for state q reading x
DeclaredMoves(q, x) ==
    {t \in Range(machine.transitions) : t.from.initial = q /\ t.from.with_symbol = x}

\* the bit-increment machine of the example
IsExampleTm ==
    /\ kind = "tm"
    /\ machine.transitions =
         <<TransitionInfo("q0", Sym1, None, "q0", Some(Write(Sym0)), Some(Right)),
           TransitionInfo("q0", Sym0, None, "qf", Some(Write(Sym1)), Some(Left)),
           TransitionInfo("q0", SymBlank, None, "qf", Some(Write(Sym1)), Some(Left))>>
    /\ Range(machine.final_states) = {"qf"}

\* the loop of run is entered with the input on the tape from the origin, a
\* blank after it, and the cursor at the origin
C10_AtStart ==
    (kind = "tm" /\ pc = "run" /\ is_none(last)) =>
        /\ tape = [i \in 1..Len(input) |-> <<input[i]>>] \o <<Blank>>
        /\ head = 0
        /\ current = machine.start_state

\* one iteration of the loop: false without a transition for the state and the
\* symbol read; else the symbol is written, the cursor moves one cell, the state
\* is the destination, and true is returned at once iff the destination is final
C10_Step ==
    (kind = "tm" /\ pc = "run") =>
        LET v     == View(tape, head)
            moves == DeclaredMoves(current, v.under)
        IN  IF moves = {}
            THEN pc' = "done" /\ result' = Some(FALSE)
            ELSE \E t \in moves :
                    /\ View(tape', head') = ViewAfter(v, unwrap(t.to.op).sym, unwrap(t.to.dir))
                    /\ current' = t.to.state
                    /\ IF t.to.state \in Range(machine.final_states)
                       THEN pc' = "done" /\ result' = Some(TRUE)
                       ELSE pc' = "run" /\ result' = None

\* the result is true iff a transition with a final destination was taken
C10_AtReturn ==
    (kind = "tm" /\ HasReturned) =>
        /\ unwrap(result) = (is_some(last) /\ current \in Range(machine.final_states))
        /\ (IsExampleTm /\ input = <<"1">>) => result = Some(TRUE) /\ tape = <<Sym0, Sym1>>

\* C10: run starts on the tape holding the input followed by blank with the
\* cursor at the origin, and each iteration reads, looks up, writes, moves and
\* sets the state; it returns false without a transition and true exactly when
\* a transition with a final destination has been taken.
C10_TmRun == []C10_AtStart /\ [][C10_Step]_vars /\ []C10_AtReturn

\* C10 witness: the bit-increment machine has accepted "1", leaving 0 1 on the tape
C10_Witness ==
    /\ IsExampleTm /\ HasReturned
    /\ input = <<"1">> /\ result = Some(TRUE)
    /\ tape = <<Sym0, Sym1>> /\ head = 0

-----------------------------------------------------------------------------
(* Claims about acceptance by the tm machine *)

\* the symbol run reads first: the first input character, or blank
FirstRead == IF input = <<>> THEN Blank ELSE <<input[1]>>

\* the start state is final and no transition is declared for it and the
\* symbol read first
FinalStartStuck ==
    /\ machine.start_state \in Range(machine.final_states)
    /\ DeclaredMoves(machine.start_state, FirstRead) = {}

\* C35: run returns true only after executing at least one transition: the
\* final-state test is applied only to the destination of a transition just
\* taken, so a machine whose start state is final still returns false when no
\* transition applies to the initial state and symbol.
C35_TrueOnlyAfterTransition ==
    (kind = "tm" /\ HasReturned) =>
        /\ result = Some(TRUE) =>
               /\ is_some(last) /\ unwrap(last).steps >= 1
               /\ current \in Range(machine.final_states)
        /\ FinalStartStuck => (result = Some(FALSE) /\ is_none(last))

\* C35 witness: a run on a non-empty input has returned false in its final
\* start state without a transition taken
C35_Witness ==
    /\ kind = "tm" /\ HasReturned /\ FinalStartStuck
    /\ input # <<>> /\ machine.transitions # <<>>
    /\ current = machine.start_state /\ result = Some(FALSE) /\ is_none(last)

-----------------------------------------------------------------------------
(* Claims about the Tape *)

Logical == unwrap(last)

\* the index in the Vec of the logical cell c
IndexOf(c) == head + (c - Logical.cursor)

\* C11: get_current_symbol returns the symbol last written to the logical cell
\* under the cursor, or blank if it was never written, and every logical cell
\* written so far still holds what was last written to it, however the tape
\* was extended since.
C11_TapeIsTwoWayUnbounded ==
    kind = "tape" =>
        /\ get_current_symbol(TheTape, Blank) =
               IF Logical.cursor \in DOMAIN Logical.written
               THEN Logical.written[Logical.cursor]
               ELSE Blank
        /\ \A c \in DOMAIN Logical.written :
               /\ IndexOf(c) \in 0..(Len(tape) - 1)
               /\ tape[IndexOf(c) + 1] = Logical.written[c]
        /\ \A i \in 0..(Len(tape) - 1) :
               (\A c \in DOMAIN Logical.written : IndexOf(c) # i) => tape[i + 1] = Blank

\* C11 witness: a cell was written, the tape was then extended twice at the
\* front and once at the back, and the cursor is back on a cell never written
C11_Witness ==
    /\ kind = "tape"
    /\ DOMAIN Logical.written = {0, 1}
    /\ Logical.written[0] = Sym1 /\ Logical.written[1] = Sym0
    /\ Logical.cursor = -2
    /\ tape = <<SymBlank, SymBlank, Sym1, Sym0>>
    /\ head = 0

\* C12: the loop of run ends only on a transition to a final state (true) or on
\* a missing entry (false); while there is an entry and its destination is not
\* final the run goes on, whatever the number of iterations made.
C12_Step ==
    (kind = "tm" /\ pc = "run") =>
        LET moves == DeclaredMoves(current, View(tape, head).under) IN
        /\ pc' = "done" =>
               \/ moves = {} /\ result' = Some(FALSE)
               \/ result' = Some(TRUE) /\ \E t \in moves : t.to.state = current'
                    /\ current' \in Range(machine.final_states)
        /\ (moves # {} /\ \A t \in moves : t.to.state \notin Range(machine.final_states)) =>
               pc' = "run" /\ is_none(result') /\ TmSteps' = TmSteps + 1

C12_TmRunUnbounded == [][C12_Step]_vars

\* C12 witness: a run still going after the most iterations followed, on a tape
\* no longer than it was at the start (the machine moves to and fro)
C12_Witness ==
    /\ kind = "tm" /\ pc = "run"
    /\ TmSteps = MaxSteps
    /\ Len(tape) = Len(input) + 1


-----------------------------------------------------------------------------
(* Claims about the cursor of the Tape *)

\* a Tape value exists: Tape::new has been called
TapeExists == kind = "tape" \/ (kind = "tm" /\ pc \in {"write", "run", "done"})

\* C34: after any sequence of Tape operations (new, write_symbol, move_left,
\* move_right), the input-loading and cursor-reset phases of run included, the
\* cursor index is strictly less than the tape length and the tape is
\* non-empty, so the out-of-bounds branches of get_current_symbol and
\* write_symbol are never taken.
C34_CursorInsideTape ==
    TapeExists =>
        /\ tape # <<>>
        /\ head < Len(tape)
        /\ \A symbol \in DeclaredTapeAlphabet :
               /\ get_current_symbol(TheTape, SymBlank) = tape[head + 1]
               /\ Len(write_symbol(TheTape, SymBlank, symbol).tape) = Len(tape)

\* C34 witness: after the input was loaded and the cursor reset, transitions of
\* run have moved the cursor right onto the last cell of a tape that grew
C34_Witness ==
    /\ kind = "tm" /\ pc = "run" /\ is_some(last)
    /\ input # <<>>
    /\ Len(tape) > Len(input) + 1
    /\ head = Len(tape) - 1

-----------------------------------------------------------------------------
(* Claims about the iteration order of the hash containers *)

\* the character run is about to look up
NextChar == input[position + 1]

\* in whatever order the alphabet is handed out, the dfa finds the same symbol
DfaAnyOrder ==
    (kind = "dfa" /\ pc = "run" /\ position < Len(input)) =>
        \A order \in Orders(TheInfo.alphabet) :
            dfa_find_in_order(order, NextChar) = dfa_find_symbol(TheInfo, NextChar)

\* in whatever order the alphabet and the current states are handed out, the
\* nfa finds the same symbol and collects the same destinations
NfaAnyOrder ==
    (kind = "nfa" /\ pc = "run" /\ position < Len(input)) =>
        /\ \A order \in Orders(TheInfo.alphabet) :
               nfa_find_in_order(order, NextChar) = nfa_find_symbol(TheInfo, NextChar)
        /\ is_some(nfa_find_symbol(TheInfo, NextChar)) =>
               \A order \in Orders(current) :
                   nfa_destinations_in_order(
                       TheInfo, order, unwrap(nfa_find_symbol(TheInfo, NextChar)), {})
                     = nfa_destinations(TheInfo, current,
                                        unwrap(nfa_find_symbol(TheInfo, NextChar)))

\* the symbols a call of make_transition may be made with in this state
PdaCallSymbols ==
    {EPSILON} \cup (IF position < Len(input) /\ is_some(pda_find_symbol(TheInfo, NextChar))
                    THEN {unwrap(pda_find_symbol(TheInfo, NextChar))}
                    ELSE {})

\* in whatever order the alphabet and the keys of the table are handed out,
\* the pda finds the same symbol, the same matching transitions and the same
\* answer of can_make_epsilon_transition
PdaAnyOrder ==
    (kind = "pda" /\ pc \in {"before", "loop", "epsilon", "symbol"}) =>
        /\ position < Len(input) =>
               \A order \in Orders(TheInfo.alphabet) :
                   pda_find_in_order(order, NextChar) = pda_find_symbol(TheInfo, NextChar)
        /\ \A keys \in Orders(DOMAIN TheInfo.transitions) :
               /\ \A symbol \in PdaCallSymbols :
                      pda_matching_in_order(TheInfo, keys, current, symbol, pda_back(stack))
                        = pda_matching_transitions(TheInfo, current, symbol, pda_back(stack))
               /\ can_make_epsilon_in_order(keys, current, stack)
                     = can_make_epsilon_transition(TheInfo, current, stack)

\* whatever the order in which the destinations are collected for the closure,
\* the nfa step leaves the same set of states
NfaClosureAnyOrder ==
    (kind = "nfa" /\ pc = "run" /\ position < Len(input)
       /\ is_some(nfa_find_symbol(TheInfo, NextChar))) =>
        LET next_states ==
                nfa_destinations(TheInfo, current, unwrap(nfa_find_symbol(TheInfo, NextChar)))
        IN  \A order \in Orders(next_states) :
                current' = compute_epsilon_closure(TheInfo, next_states, order)

\* C36: the result of run is a function of the validated description and the
\* input only: every step of a run comes out the same whatever the iteration
\* order of the hash-based alphabet set, state set and transition table (at
\* most one alphabet symbol matches a character, at most one table key matches
\* a pda lookup), so two runs with the same description and input return the
\* same boolean.
C36_RunIsAFunction ==
    [](DfaAnyOrder /\ NfaAnyOrder /\ PdaAnyOrder) /\ [][NfaClosureAnyOrder]_vars

\* C36 witness: a dfa declaring a and the two-character symbol ab, either of
\* which the iteration may hand out first, has moved on the character a
C36_Witness ==
    /\ kind = "dfa" /\ pc = "run" /\ last = Some("moved")
    /\ DeclaredAlphabet = {SymA, SymAB}
    /\ input[position] = "a"

-----------------------------------------------------------------------------
(* Claims about the lexer *)

HasLexed == is_some(lexed)

\* character k of the source is inside a comment: a `#` before it on its line
InComment(k) ==
    \E j \in 1..(k - 1) : src[j] = "#" /\ \A m \in (j + 1)..k : src[m] # "\n"

\* the indices of the `=` outside comments that do not begin `=>`
LoneEquals ==
    {k \in DOMAIN src :
        src[k] = "=" /\ ~InComment(k) /\ (k = Len(src) \/ src[k + 1] # ">")}

FirstLoneEquals == CHOOSE k \in LoneEquals : \A j \in LoneEquals : k <= j

\* C15 as stated: lex returns a token sequence or a LexerError for every source
\* text and never aborts; the first `=` that does not begin `=>` gives the
\* unexpected-character error expecting `>` when a character follows it, and
\* the unexpected-end-of-input error when it is the last character, whether or
\* not a token precedes it.
C15_AsStated ==
    HasLexed =>
        LET r == unwrap(lexed) IN
        /\ ~is_aborted(r)
        /\ LoneEquals = {} => r.ok
        /\ LoneEquals # {} =>
               /\ is_err(r)
               /\ unwrap(r.err).kind = IF FirstLoneEquals = Len(src)
                                       THEN "UnexpectedEOF" ELSE "UnexpectedCharacter"
               /\ FirstLoneEquals # Len(src) =>
                      /\ unwrap(r.err).expected = ">"
                      /\ unwrap(r.err).at = <<str_len(SubSeq(src, 1, FirstLoneEquals - 1)), 1>>

\* the same with the abort set aside: what lex does on every other source text
C15_UnlessNoTokenPrecedes ==
    HasLexed =>
        LET r == unwrap(lexed) IN
        /\ is_aborted(r) <=> (LoneEquals # {} /\ FirstLoneEquals = Len(src)
                              /\ lex(SubSeq(src, 1, Len(src) - 1)).ok
                              /\ Len(unwrap(lex(SubSeq(src, 1, Len(src) - 1)).info)) = 1)
        /\ ~is_aborted(r) => C15_AsStated


\* C27: every token sequence a successful lex returns has exactly one EOF
\* token, which is its last token and has a zero-length span at the offset
\* equal to the length of the source in bytes.
C27_OneSentinelAtEnd ==
    (HasLexed /\ unwrap(lexed).ok) =>
        LET tokens == unwrap(unwrap(lexed).info) IN
        /\ tokens # <<>>
        /\ {k \in DOMAIN tokens : tokens[k].kind = "EOF"} = {Len(tokens)}
        /\ tokens[Len(tokens)].span = <<str_len(src), 0>>

\* C27 witness: a source of an identifier and a comment that runs to the end
\* and holds a two-byte character has been lexed; its sentinel is at offset 4
C27_Witness ==
    /\ HasLexed /\ unwrap(lexed).ok
    /\ Len(src) = 3 /\ src[2] = "#" /\ src[3] = "eacute"
    /\ Len(unwrap(unwrap(lexed).info)) = 2
    /\ unwrap(unwrap(lexed).info)[2] = Token("EOF", 4, 0)

-----------------------------------------------------------------------------
(* Claims about the parser *)

HasParsed == is_some(parsed)

\* the tokens handed to parse
Tokens == unwrap(unwrap(lexed).info)

\* C14 as stated: on the tokens of any successful lex, parse returns a
\* description or a ParserError, no unwrap fails and no panic is reached,
\* because no token is requested once the EOF sentinel has been consumed.
C14_AsStated ==
    HasParsed => (~is_aborted(unwrap(parsed).res) /\ unwrap(parsed).nones = 0)

\* C14 amended: on the tokens of any successful lex, parse returns a
\* description or a ParserError; no unwrap fails and no panic is reached.  The
\* only request made once the EOF sentinel has been consumed is the first
\* next() of parse_section, at most once, whose None is matched and ends the
\* loop of parse.
C14_ParseNeverAborts ==
    HasParsed =>
        /\ ~is_aborted(unwrap(parsed).res)
        /\ unwrap(parsed).nones <= 1
        /\ unwrap(parsed).nones = 1 =>
               /\ unwrap(parsed).i = Len(Tokens) + 1
               /\ (unwrap(parsed).res.ok
                      \/ unwrap(unwrap(parsed).res.err).kind = "MissingSection")

\* C14 witness: the sentinel was consumed by parse_transitions, parse_section
\* asked once more, and parse returned a missing-section error
C14_Witness ==
    /\ HasParsed
    /\ unwrap(parsed).nones = 1
    /\ is_err(unwrap(parsed).res)
    /\ unwrap(unwrap(parsed).res.err).kind = "MissingSection"


\* the list of sections the source was put together from
Items == unwrap(last)

FromSections == is_some(last) /\ kind = "dfa" /\ src # <<>>

\* a section header `[` name `]` stands at token i
HeaderAt(i) ==
    /\ i + 2 <= Len(Tokens)
    /\ Tokens[i].kind = "LeftSquareBracket"
    /\ Tokens[i + 1].kind = "Identifier"
    /\ Tokens[i + 2].kind = "RightSquareBracket"

HeaderName(i) == token_src(Tokens[i + 1], src)

\* a section of that name appeared in the source
Appeared(name) == \E i \in DOMAIN Tokens : HeaderAt(i) /\ HeaderName(i) = name

ParseResult == unwrap(parsed).res

ParseErr == unwrap(ParseResult.err)

\* C16 as stated: when two section headers of one source have the same name,
\* parse fails, a later section never replacing an earlier one, and the
\* duplicate-section error points at the second occurrence and at the first.
C16_AsStated ==
    HasParsed =>
        \A a, b \in DOMAIN Tokens :
            (a < b /\ HeaderAt(a) /\ HeaderAt(b) /\ HeaderName(a) = HeaderName(b)) =>
                /\ ~ParseResult.ok
                /\ (is_err(ParseResult) /\ ParseErr.kind = "DuplicateSection") =>
                       \E c, d \in DOMAIN Tokens :
                           /\ c < d /\ HeaderAt(c) /\ HeaderAt(d)
                           /\ HeaderName(c) = HeaderName(d)
                           /\ ParseErr.at = Tokens[d + 1].span
                           /\ ParseErr.other = Tokens[c + 1].span

Text_q0 == <<"q", "0">>

Text_q1 == <<"q", "1">>

\* the description the five sections describe, with the optional sections of
\* the list
ExpectedDescription(items) ==
    PartialMachineInfo(<<Text_q0, Text_q1>>, <<SymA>>,
                       <<Plain(Text_q0, SymA, Text_q1), Plain(Text_q1, SymA, Text_q1)>>,
                       Text_q0, <<Text_q1>>,
                       IF "stack_alphabet" \in Range(items) THEN Some(<<SymZ>>) ELSE None, None,
                       None, IF "blank_symbol" \in Range(items) THEN Some(SymBlank) ELSE None)

\* the five sections once each, in any order, with or without the two optional ones
WellFormed(items) ==
    /\ Range(BaseOrder) \subseteq Range(items)
    /\ Range(items) \subseteq Range(BaseOrder) \cup {"stack_alphabet", "blank_symbol"}
    /\ \A a, b \in DOMAIN items : a # b => items[a] # items[b]

\* C17 as stated: whatever the order of the sections of a well-formed
\* description, parse succeeds with the same field contents; a [transitions]
\* section followed by another section is accepted.
C17_AsStated ==
    (HasParsed /\ FromSections /\ WellFormed(Items)) =>
        /\ ParseResult.ok
        /\ machine = ExpectedDescription(Items)

\* what parse does for them: the same contents whenever [transitions] is the
\* last section, a syntax error expecting `[` at the next header otherwise
TransitionsLastOnly ==
    (HasParsed /\ FromSections /\ WellFormed(Items)) =>
        IF Items[Len(Items)] = "transitions"
        THEN ParseResult.ok /\ machine = ExpectedDescription(Items)
        ELSE /\ is_err(ParseResult)
             /\ ParseErr.kind = "UnexpectedToken"
             /\ ParseErr.expected = "["
             /\ token_src([span |-> ParseErr.at], src) = <<"[">>

RequiredNames == {Name_states, Name_alphabet, Name_transitions, Name_initial, Name_final}

\* the section that assigns the field a missing-section error names
SectionOfField(field) ==
    CASE field = "states" -> Name_states
      [] field = "alphabet" -> Name_alphabet
      [] field = "transitions" -> Name_transitions
      [] field = "start_state" -> Name_initial
      [] field = "final_states" -> Name_final

\* in the returned description each optional field is present exactly when
\* its section appeared
OptionalAsAppeared ==
    LET info == unwrap(ParseResult.info) IN
    /\ is_some(info.stack_alphabet) <=> Appeared(Name_stack_alphabet)
    /\ is_some(info.start_stack) <=> Appeared(Name_start_stack)
    /\ is_some(info.tape_alphabet) <=> Appeared(Name_tape_alphabet)
    /\ is_some(info.blank_symbol) <=> Appeared(Name_blank_symbol)

\* C18 as stated: parse returns a description only if all five sections
\* appeared; if any is absent it returns a missing-section error naming an
\* absent field; optional fields are present exactly when their section appeared.
C18_AsStated ==
    HasParsed =>
        /\ ParseResult.ok => (\A n \in RequiredNames : Appeared(n)) /\ OptionalAsAppeared
        /\ (\E n \in RequiredNames : ~Appeared(n)) =>
               /\ is_err(ParseResult)
               /\ ParseErr.kind = "MissingSection"
               /\ ~Appeared(SectionOfField(ParseErr.section))

\* the sections of the list are all read without an error: no unknown name, no
\* literal without parentheses, and no section after [transitions]
ReadWithoutError(items) ==
    /\ Range(items) \subseteq (Range(BaseOrder) \cup Extras \cup Parenthesised) \ {"bogus"}
    /\ \A k \in DOMAIN items :
           items[k] \in {"transitions"} \cup Parenthesised => k = Len(items)

\* C18 amended: parse returns a description only if all five sections
\* appeared; if any is absent it fails, with a missing-section error naming an
\* absent field unless an error found while reading the sections is returned
\* first; optional fields are present exactly when their section appeared.
C18_MissingSection ==
    HasParsed =>
        /\ ParseResult.ok => (\A n \in RequiredNames : Appeared(n)) /\ OptionalAsAppeared
        /\ (\E n \in RequiredNames : ~Appeared(n)) =>
               /\ is_err(ParseResult)
               /\ ParseErr.kind \in {"MissingSection", "UnexpectedToken", "UnexpectedEOF",
                                     "UnknownSectionName"}
               /\ ParseErr.kind = "MissingSection" => ~Appeared(SectionOfField(ParseErr.section))
               /\ (FromSections /\ ReadWithoutError(Items)) => ParseErr.kind = "MissingSection"

\* C18 witness: [initial] is absent, every section of the source was read, one
\* of them optional, and the error names start_state
C18_Witness ==
    /\ HasParsed /\ FromSections /\ ReadWithoutError(Items)
    /\ ~Appeared(Name_initial) /\ Appeared(Name_states) /\ Appeared(Name_stack_alphabet)
    /\ is_err(ParseResult)
    /\ ParseErr.kind = "MissingSection"
    /\ ParseErr.section = "start_state"

\* the transition record each literal stands for
ExpectedLiteral(item) ==
    CASE item \in {"literal dfa", "parenthesised dfa"} ->
            TransitionInfo(Text_q0, SymA, None, Text_q1, None, None)
      [] item \in {"literal pda", "parenthesised pda"} ->
            TransitionInfo(Text_q0, SymA, Some(SymZ), Text_q1, Some(Push(<<"A">>)), None)
      [] item \in {"literal tm", "parenthesised tm"} ->
            TransitionInfo(Text_q0, Sym0, None, Text_q1, Some(Write(Sym1)), Some(Right))

\* C19 as stated: each of the three transition literals of the format's
\* description, in a [transitions] body, is accepted by the parser and yields
\* one transition record with the literal's states, symbols, operation and direction.
C19_AsStated ==
    (HasParsed /\ FromSections /\ Items[Len(Items)] \in Literals) =>
        /\ ParseResult.ok
        /\ machine.transitions = <<ExpectedLiteral(Items[Len(Items)])>>

\* what parse accepts instead: the same literals with the right-hand side in
\* parentheses, the next state inside them; the literals as written are
\* rejected at the next state, where `(` is expected
ParenthesisedOnly ==
    (HasParsed /\ FromSections) =>
        /\ Items[Len(Items)] \in Parenthesised =>
               /\ ParseResult.ok
               /\ machine.transitions = <<ExpectedLiteral(Items[Len(Items)])>>
        /\ Items[Len(Items)] \in Literals =>
               /\ is_err(ParseResult)
               /\ ParseErr.kind = "UnexpectedToken"
               /\ ParseErr.expected = "("
               /\ token_src([span |-> ParseErr.at], src) = Text_q1


-----------------------------------------------------------------------------
(* Claims about truncated transitions *)

\* the transitions begun in the source: each has one arrow, and an arrow
\* stands nowhere else in the grammar
ArrowsIn(toks) == Cardinality({i \in DOMAIN toks : toks[i].kind = "Arrow"})

\* C31 as stated: parse returns a description only if the whole token
\* sequence matches the section grammar: every transition begun in a
\* [transitions] body is recorded complete in the result or makes parse
\* return an error, so a transition cut off after `=> (` by a `[` is never
\* silently discarded from a successful parse.
C31_AsStated ==
    (HasParsed /\ FromSections /\ ParseResult.ok) =>
        Len(unwrap(ParseResult.info).transitions) = ArrowsIn(Tokens)

-----------------------------------------------------------------------------
(* Claims about list sections *)

\* the names of the sections whose body is a list
ListNames ==
    {Name_final, Name_states, Name_alphabet, Name_stack_alphabet, Name_tape_alphabet}

\* the body of a list section starts at token i
ListBodyAt(i) == i > 3 /\ HeaderAt(i - 3) /\ HeaderName(i - 3) \in ListNames

\* the tokens from i up to j, j not included, are identifier, comma, identifier,
\* comma, ...
Alternating(i, j) ==
    /\ (j - i) % 2 = 0
    /\ \A k \in i..(j - 1) :
           Tokens[k].kind = IF (k - i) % 2 = 0 THEN "Identifier" ELSE "Comma"

\* the first identifier of the list from token i that no comma follows
LastIdentifier(i) ==
    {j \in i..(Len(Tokens) - 1) :
        /\ Alternating(i, j)
        /\ Tokens[j].kind = "Identifier" /\ Tokens[j + 1].kind # "Comma"}

\* the identifiers of the list from token i to token j, in source order
IdentifiersOf(i, j) == [k \in 1..((j - i) \div 2 + 1) |-> Tokens[i + 2 * (k - 1)]]

\* the source starts with `[initial] <identifier>`, so that parse reaches the
\* section at token 5
InitialFirst ==
    /\ HeaderAt(1) /\ HeaderName(1) = Name_initial
    /\ Len(Tokens) >= 4 /\ Tokens[4].kind = "Identifier"

\* C30 as stated: the body of a list section ends without error at the first
\* identifier that no comma follows; the identifiers are returned in source
\* order and the token after it is left for the next section.
C30_AsStated ==
    HasParsed =>
        \A i \in DOMAIN Tokens : \A j \in LastIdentifier(i) :
            ListBodyAt(i) =>
                /\ parse_list_section(Tokens, i) = Ret(ResOk(IdentifiersOf(i, j)), j + 1, 0)
                /\ (InitialFirst /\ i = 8) => ~(is_err(ParseResult)
                                                  /\ ParseErr.kind = "UnexpectedToken"
                                                  /\ ParseErr.at = Tokens[j + 1].span)

\* C30 amended: the body ends without error at the first identifier that no
\* comma follows when the token after it is `[` or the end of input: the
\* identifiers are returned in source order and that token is left
\* unconsumed.  Any other token after it is an unexpected-token error expecting
\* `,` at that token, which is the error parse returns.
C30_ListEndsAtBracketOrEnd ==
    HasParsed =>
        \A i \in DOMAIN Tokens : \A j \in LastIdentifier(i) :
            ListBodyAt(i) =>
                IF Tokens[j + 1].kind \in {"LeftSquareBracket", "EOF"}
                THEN parse_list_section(Tokens, i) = Ret(ResOk(IdentifiersOf(i, j)), j + 1, 0)
                ELSE /\ parse_list_section(Tokens, i).res
                          = ResErr("UnexpectedToken",
                                   [at |-> Tokens[j + 1].span, expected |-> ","])
                     /\ (InitialFirst /\ i = 8)
                            => ParseResult = parse_list_section(Tokens, i).res

\* C30 witness: after `[initial] q [states] q, p` comes an identifier, and
\* parse has returned the unexpected-token error expecting `,` at it
C30_Witness ==
    /\ HasParsed /\ InitialFirst /\ ListBodyAt(8)
    /\ 10 \in LastIdentifier(8) /\ Tokens[11].kind = "Identifier"
    /\ ParseResult = ResErr("UnexpectedToken", [at |-> Tokens[11].span, expected |-> ","])

\* a list of two identifiers that ends at `[` leaves the `[` unconsumed
C30_WitnessEnds ==
    /\ HasParsed /\ ListBodyAt(8) /\ 10 \in LastIdentifier(8)
    /\ Tokens[11].kind = "LeftSquareBracket"
    /\ parse_list_section(Tokens, 8) = Ret(ResOk(<<Tokens[8], Tokens[10]>>), 11, 0)

-----------------------------------------------------------------------------
(* Claims about the pipeline *)

\* the values the stages have returned so far, by stage
Returned ==
    [stage \in {"lex", "parse", "validate"} |->
        CASE stage = "lex" -> lexed
          [] stage = "parse" -> IF is_some(parsed) THEN Some(unwrap(parsed).res) ELSE None
          [] stage = "validate" -> outcome]

\* the stages that have returned an error, that have aborted
ErrorsReturned == {stage \in DOMAIN Returned :
                      is_some(Returned[stage]) /\ is_err(unwrap(Returned[stage]))}

Aborts == {stage \in DOMAIN Returned :
              is_some(Returned[stage]) /\ is_aborted(unwrap(Returned[stage]))}

\* the pipeline has ended without running the machine to its end
Failed == pc \in {"error", "abort"}

\* C13 as stated: the stages happen in the order lex, parse, validate by the
\* validator of the selected kind, run, each only after the earlier ones
\* succeeded; when a stage fails exactly one error is returned and there is no
\* accept/reject result; when run returns false no error is reported.
C13_AsStated ==
    /\ is_some(parsed) => (is_some(lexed) /\ unwrap(lexed).ok)
    /\ is_some(outcome) => (is_some(parsed) /\ unwrap(parsed).res.ok)
    /\ is_some(outcome) =>
           unwrap(outcome) \in (CASE kind = "dfa" -> dfa_Info_new(machine)
                                  [] kind = "nfa" -> nfa_Info_new(machine)
                                  [] kind = "pda" -> pda_Info_new(machine)
                                  [] kind = "tm" -> tm_Info_new(machine))
    /\ (pc \notin {"lex", "parse", "validate"} /\ ~Failed) =>
           (is_some(outcome) /\ unwrap(outcome).ok)
    /\ Failed =>
           /\ Cardinality(ErrorsReturned) = 1
           /\ Aborts = {}
           /\ is_none(result)
    /\ is_some(result) => (ErrorsReturned = {} /\ Aborts = {})

=============================================================================
